---- MODULE Spec2Model ----
(***************************************************************************)
(* Bot fleet controller (AppDirector) and its per-bot worker loops          *)
(* (_run_bot), with the SimpleTradingDirector iteration they drive and the   *)
(* global-pause gate of the event helpers.                                   *)
(*                                                                           *)
(* Threads: one worker thread per (bot, generation) -- restart_bot creates a *)
(* new generation while the previous thread may still be alive -- and the    *)
(* controller's callers (command processor / REPL).                          *)
(* The registry mutex self.lock is a non-reentrant threading.Lock.  A        *)
(* `with self.lock:` block that cannot block inside is one atomic step       *)
(* guarded by lock = LockFree; a block that calls out while holding the      *)
(* mutex keeps the holder in `lock` across steps.                            *)
(***************************************************************************)
EXTENDS Integers, Sequences, FiniteSets, TLC

\* ---------------------------------------------------------------- bounds
NumBots == 2
MaxGen == 1
NumCallers == 1
IterCap == 2
NumConsumers == 2
MaxCmds == 2
NumMagics == 2
NumClasses == 2
MaxTickets == 3
MaxPositions == 2
NumPositions == 2
MaxTime == 2
MaxOrders == 1
MaxRuns == 2
NumPublishers == 2
NumCallbacks == 2
MaxSubs == 2
MaxEvents == 2
MaxLimit == 2
MaxListed == 2
MaxTrades == 3
MaxProfit == 1
\* EventBus._max_history, 1000 in the code, scaled down
max_history == 1

\* ------------------------------------------------------ program constants
max_consecutive_errors == 5

Bots == 1..NumBots
Gens == 0..MaxGen
Workers == Bots \X Gens
Callers == 1..NumCallers
Consumers == 1..NumConsumers
CmdIds == 1..MaxCmds
Tickets == 1..MaxTickets
PositionIds == 1..NumPositions
Syncers == {"loop", "manual"}
Publishers == 1..NumPublishers
Callbacks == 1..NumCallbacks
EventTypes == {"signal_generated", "trade_opened"}

\* BotConfig as far as add_bot looks at it: <<magic_number, strategy class>>
Configs == (1..NumMagics) \X (1..NumClasses)
DefaultConfig == <<1, 1>>
NoConfig == <<0, 0>>
magic_number(cfg) == cfg[1]
strategy_class(cfg) == cfg[2]

BotOf(w) == w[1]
GenOf(w) == w[2]

VARIABLES
    status,         \* active_bots[b]['status'], "none" when b is not registered
    gen,            \* generation of active_bots[b]['thread'] / events / director
    stop_event,     \* per worker thread: its stop_event flag
    pause_event,    \* per worker thread: its pause_event flag (set = running)
    wpc,            \* per worker thread: position in _run_bot / run_strategy
    consecutive_errors, \* per worker thread
    lock,           \* holder of self.lock: LockFree, HeldByWorker(w) or HeldByCaller(c)
    global_paused,  \* AppDirector.global_paused (read by GlobalState.is_globally_paused)
    cpc,            \* per caller: position in the controller operation
    cop,            \* per caller: the operation it called
    carg,           \* per caller: bot_id argument
    cthread,        \* per caller: generation of the thread captured by stop_bot
    config,         \* active_bots[b]['config']: <<magic_number, strategy class>>
    iteration,      \* per worker thread: _run_bot's iteration, saturating at IterCap
    saw_open,       \* per worker thread: an is_market_open check of it returned True
    market_open_at_add  \* per bot: add_bot's local market_open

base == <<status, gen, stop_event, pause_event, wpc, consecutive_errors, lock,
          global_paused, cpc, cop, carg, cthread, config>>

\* iteration only feeds the log throttle of line 355, market_open only the
\* messages of lines 256-260; they and saw_open are observed, never read back
observed == <<iteration, saw_open, market_open_at_add>>

\* The command file bots_commands.json, the dashboard sessions that write it
\* (send_bot_command) and the controller's command processor that takes it
VARIABLES
    file_state,     \* "absent", "empty" (opened for writing, nothing flushed) or "list"
    file_cmds,      \* the JSON list in the file: a sequence of command ids
    spc,            \* per consumer: position in send_bot_command
    existing,       \* per consumer: its local existing_commands
    sending,        \* per consumer: the id of the command it is sending
    orphan,         \* per consumer: the file it holds open for writing was removed
    next_cmd,       \* the next unused command id
    written,        \* ids of the commands whose send_bot_command has returned
    ppc,            \* command processor: position in _read_and_process_commands
    commands,       \* command processor: its local `commands`
    dispatched      \* per command id: how often the processor dispatched it (max 2)

cmdVars == <<file_state, file_cmds, spc, existing, sending, orphan, next_cmd,
             written, ppc, commands, dispatched>>

\* The *_all commands of the command processor (pause_all, resume_all), with what
\* an observer sees of them
VARIABLES
    all_op,         \* per caller: "pause" / "resume" while it runs a *_all command
    all_todo,       \* per caller: the bot ids of list_bots() still to be called
    phase,          \* progress of a pause_all taken while every bot was running
    state_file      \* bots_state.json as last written: <<statuses, global_paused>>

allVars == <<all_op, all_todo, phase, state_file>>

VARIABLES
    close_before_open,  \* strategy.should_close_before_open() of the trading bot
    max_open_positions, \* strategy.get_max_open_positions() of the trading bot
    positions,      \* tickets of the broker's open positions for the bot's (symbol, magic)
    next_ticket,    \* the ticket the broker gives to the next filled order
    trades,         \* the trades table: ticket -> <<status, close_reason>>
    current_positions,  \* per worker: local current_positions of run_strategy
    to_close,       \* per worker: rows of df_positions still to visit in the close loop
    ticket,         \* per worker: local ticket (result.order) of run_strategy
    generated,      \* per worker: generate_signal was called in this iteration
    signal_events,  \* per worker: signal_generated events published in this iteration
    opened_events,  \* per worker: trade_opened events published in this iteration
    submitted,      \* per worker: orders sent with buy / sell in this iteration
    attempted,      \* per worker: tickets passed to close_position_by_ticket in this iteration
    held,           \* per worker: the broker's positions when the position policy ran
    outage          \* per worker: failed reconnects in a row up to the last health check

orderVars == <<close_before_open, max_open_positions, positions, next_ticket, trades,
               current_positions, to_close, ticket>>

\* What an iteration has done so far
orderObs == <<generated, signal_events, opened_events, submitted, attempted, held,
              outage>>

VARIABLES
    session         \* the MT5 session all workers share through self.basic_trading:
                    \* "up", "lost" (not connected) or "down" (after mt5.shutdown())

connVars == <<session>>

VARIABLES
    wsnap,          \* per worker: local `state` of its _write_state_file call, built
                    \* and not yet written to the file (NoSnapshot outside the call)
    csnap           \* the same per controller caller

snapVars == <<wsnap, csnap>>

VARIABLES
    symbol_prefix,  \* BasicTrading.symbol_prefix (MT5_SYMBOL_PREFIX), a string of characters
    symbol_suffix,  \* BasicTrading.symbol_suffix (MT5_SYMBOL_SUFFIX)
    all_symbols,    \* the names mt5.symbols_get() lists, in the terminal's order
    hash_order,     \* the order in which this process iterates over the set
                    \* custom_candidates (string hashes differ from process to process)
    requested,      \* the argument of the last _find_symbol_info call
    resolved        \* the name of the symbol it returned, NoName for None

symVars == <<symbol_prefix, symbol_suffix, all_symbols, hash_order, requested, resolved>>

VARIABLES
    trade_rows,     \* the columns of the trades table get_bot_stats reads: a sequence of
                    \* rows with bot_id, status and profit (<<>> is NULL, <<p>> a value)
    stats,          \* the dictionary the last get_bot_stats call returned
    stats_rows      \* the trades table when that call ran

statVars == <<trade_rows, stats, stats_rows>>

\* The variables of the later parts of the development
lateVars == <<snapVars, symVars, statVars>>

VARIABLES
    table,          \* the trades table: a sequence of rows, row i has id i
    deals,          \* the broker's deal history, oldest first
    now,            \* the clock read by datetime.now() and stamped on deals
    lpc,            \* the worker's position in its TradeLogger call
    lticket,        \* the ticket of the worker's TradeLogger call
    ltrade,         \* local trade of log_trade_closed: the row read, NoTrade if None
    lret,           \* what the last log_trade_closed returned ("none" before any)
    lbefore,        \* the trades table when the last log_trade_closed was called
    ypc,            \* per sync thread: position in _sync_with_mt5
    ydeals,         \* per sync thread: the deals history_deals_get returned
    ygroups,        \* per sync thread: position ids of positions.items() still to visit
    ytrade,         \* per sync thread: local existing_trade of _process_position
    runs,           \* completed _sync_with_mt5 runs, counted up to MaxRuns
    after_run       \* the trades table at the end of the last completed run

storeVars == <<table, deals, now, lpc, lticket, ltrade, lret, lbefore,
               ypc, ydeals, ygroups, ytrade, runs, after_run>>

VARIABLES
    subscribers,    \* EventBus._subscribers: event type -> sequence of callbacks
    event_history,  \* EventBus._event_history: sequence of events
    bus_lock,       \* holder of EventBus._lock: 0 when free, else the publisher
    bpc,            \* per publisher: position in publish
    bevent,         \* per publisher: the event being published
    callbacks,      \* per publisher: local callbacks (the copy taken under the lock)
    invoked,        \* per publisher: the callbacks invoked for the current event
    at_publish,     \* per publisher: the subscribers of the type when the event was recorded
    published,      \* every event published so far, in publication order
    next_event,     \* sequence number of the next event
    recent,         \* the result of the last get_recent_events call
    recent_args     \* the <<event type, limit>> of that call

busVars == <<subscribers, event_history, bus_lock, bpc, bevent, callbacks, invoked,
             at_publish, published, next_event, recent, recent_args>>

VARIABLES
    signals         \* the signals table (save_signal). Its one writer in the program is
                    \* TradeLogger.log_signal, which nothing in the repository calls
signalVars == <<signals>>
\* The trade store with its sync service, and the event bus
dataVars == <<storeVars, busVars, signalVars>>

\* The variables of the subsystems outside the fleet's registry
aside == <<cmdVars, allVars, orderVars, orderObs, connVars, lateVars, dataVars>>

vars == <<base, observed, aside>>

workerVars == <<stop_event, pause_event, wpc, consecutive_errors>>
callerVars == <<cpc, cop, carg, cthread>>

LockFree == <<"free", 0, 0>>
HeldByWorker(w) == <<"worker", w[1], w[2]>>
HeldByCaller(c) == <<"caller", c, 0>>

Registered(b) == status[b] # "none"
Current(b) == <<b, gen[b]>>

\* Thread.is_alive(): started and not yet returned from _run_bot
Alive(w) == wpc[w] \notin {"unborn", "created", "dead"}

\* No command file, no send in progress, the processor between two polls
InitCmd ==
    /\ file_state = "absent"
    /\ file_cmds = <<>>
    /\ spc = [s \in Consumers |-> "idle"]
    /\ existing = [s \in Consumers |-> <<>>]
    /\ sending = [s \in Consumers |-> 0]
    /\ orphan = [s \in Consumers |-> FALSE]
    /\ next_cmd = 1
    /\ written = {}
    /\ ppc = "wait"
    /\ commands = <<>>
    /\ dispatched = [i \in CmdIds |-> 0]

\* No `state` built and waiting to be written
NoSnapshot == <<>>

InitSnap ==
    /\ wsnap = [w \in Workers |-> NoSnapshot]
    /\ csnap = [c \in Callers |-> NoSnapshot]

InitAll ==
    /\ all_op = [c \in Callers |-> "none"]
    /\ all_todo = [c \in Callers |-> <<>>]
    /\ phase = "none"
    /\ state_file = <<[b \in Bots |-> "none"], FALSE>>

\* ------------------------------------------- trade store: rows and deals

\* None in a numeric column or field
Null == -1

\* The price the broker quotes at time t
PriceAt(t) == 100 + t

\* Deal comments, letter by letter: none, the server's take-profit and stop-loss
\* marks in lower and upper case, a comment holding both marks, the close request's
Comments == { <<>>,
              <<"[", "t", "p">>, <<"[", "s", "l">>,
              <<"[", "T", "P">>, <<"[", "S", "L">>,
              <<"[", "s", "l", "[", "t", "p">>,
              <<"C", "l", "o", "s", "e">> }

Lowercase == <<"a", "b", "c", "d", "e", "f", "g", "h", "i", "j", "k", "l", "m",
               "n", "o", "p", "q", "r", "s", "t", "u", "v", "w", "x", "y", "z">>
Uppercase == <<"A", "B", "C", "D", "E", "F", "G", "H", "I", "J", "K", "L", "M",
               "N", "O", "P", "Q", "R", "S", "T", "U", "V", "W", "X", "Y", "Z">>

\* str.lower() on one character
LowerChar(ch) ==
    IF \E i \in 1..26 : Uppercase[i] = ch
    THEN Lowercase[CHOOSE i \in 1..26 : Uppercase[i] = ch] ELSE ch

\* str.upper() on one character
UpperChar(ch) ==
    IF \E i \in 1..26 : Lowercase[i] = ch
    THEN Uppercase[CHOOSE i \in 1..26 : Lowercase[i] = ch] ELSE ch

upper(str) == [i \in 1..Len(str) |-> UpperChar(str[i])]

lower(str) == [i \in 1..Len(str) |-> LowerChar(str[i])]

\* Python's `sub in str`
Contains(sub, str) ==
    \E i \in 0..(Len(str) - Len(sub)) : \A j \in 1..Len(sub) : str[i + j] = sub[j]

\* -------------------------------------------------- symbol resolution

\* None for a symbol
NoName == <<>>

EURUSD == <<"E", "U", "R", "U", "S", "D">>

\* The names a terminal may list: the plain name, names in an envelope, a common
\* variant, another capitalisation, names that contain the symbol (8 and 11
\* characters long) and another symbol
BrokerNames ==
    { EURUSD,
      EURUSD \o <<".", "e", "c", "n">>,
      <<"#">> \o EURUSD,
      EURUSD \o <<"m">>,
      <<"E", "u", "r", "U", "s", "d">>,
      EURUSD \o <<".", "x">>,
      EURUSD \o <<".", "l", "o", "n", "g">>,
      <<"G", "B", "P", "U", "S", "D">> }

\* The elements of a sequence
Range(seq) == {seq[i] : i \in DOMAIN seq}

\* The loop of lines 1091-1095: the sequence without the repetitions of a candidate
RECURSIVE Dedupe(_)
Dedupe(seq) ==
    IF seq = <<>> THEN <<>>
    ELSE LET rest == Dedupe(SubSeq(seq, 1, Len(seq) - 1))
             last == seq[Len(seq)]
         IN IF last \in Range(rest) \/ last = <<>> THEN rest ELSE Append(rest, last)

\* _find_symbol_info, lines 1053-1064: the set custom_candidates as list() hands it
\* over, in the iteration order of this process
custom_candidates(symbol) ==
    LET made == << symbol_prefix \o symbol \o symbol_suffix,
                   symbol \o symbol_suffix,
                   symbol_prefix \o symbol >>
    IN IF symbol_prefix # <<>> \/ symbol_suffix # <<>>
       THEN Dedupe([i \in 1..3 |-> made[hash_order[i]]])
       ELSE <<>>

\* lines 1067-1085
common_variations(symbol) ==
    << symbol,
       symbol \o <<"m">>,
       symbol \o <<".", "c">>,
       symbol \o <<".">>,
       symbol \o <<"#">>,
       <<"#">> \o symbol,
       symbol \o <<"_">>,
       symbol \o <<"p", "r", "o">>,
       symbol \o <<"p", "r", "o", "-", "c", "e", "n", "t">>,
       symbol \o <<"c", "e", "n", "t">>,
       symbol \o <<"f", "i", "x">>,
       symbol \o <<"e", "x">>,
       lower(symbol),
       upper(symbol),
       symbol \o <<"c">>,
       symbol \o <<"e", "c", "n">>,
       <<".">> \o symbol >>

\* The first element of seq that satisfies Test, NoName when there is none
FirstThat(seq, Test(_)) ==
    IF \E i \in DOMAIN seq : Test(seq[i])
    THEN seq[CHOOSE i \in DOMAIN seq : Test(seq[i]) /\ \A j \in 1..(i - 1) : ~Test(seq[j])]
    ELSE NoName

\* mt5.symbol_info(variant) is not None: the terminal has a symbol of that name
symbol_info(variant) == variant \in Range(all_symbols)

\* BasicTrading._search_symbol_by_pattern, lines 1117-1136
search_symbol_by_pattern(symbol) ==
    LET symbol_upper == upper(symbol)
        Exact(name) == upper(name) = symbol_upper
        Partial(name) == Contains(symbol_upper, upper(name)) /\ Len(name) <= 10
    IN IF all_symbols = <<>> THEN NoName
       ELSE IF \E i \in DOMAIN all_symbols : Exact(all_symbols[i])
       THEN FirstThat(all_symbols, Exact)
       ELSE FirstThat(all_symbols, Partial)

\* BasicTrading._find_symbol_info, lines 1089-1105: the name of the info it returns
find_symbol_info(symbol) ==
    LET variations == Dedupe(custom_candidates(symbol) \o common_variations(symbol))
    IN IF \E i \in DOMAIN variations : symbol_info(variations[i])
       THEN FirstThat(variations, symbol_info)
       ELSE search_symbol_by_pattern(symbol)

\* A call of _find_symbol_info (by ensure_symbol_selected, get_actual_symbol, ...)
FindSymbolInfo(symbol) ==
    /\ requested' = symbol
    /\ resolved' = find_symbol_info(symbol)
    /\ UNCHANGED <<symbol_prefix, symbol_suffix, all_symbols, hash_order>>

\* The close reason rule with the stop loss mark tested first
CloseReasonSlFirst(comment) ==
    LET exit_comment == lower(comment) IN
    IF Contains(<<"[", "s", "l">>, exit_comment) THEN "sl"
    ELSE IF Contains(<<"[", "t", "p">>, exit_comment) THEN "tp"
    ELSE "synced"

\* trade_sync_service.py lines 206-212 and 266-272: the close reason of an exit deal
CloseReasonOf(comment) ==
    LET exit_comment == lower(comment) IN
    IF Contains(<<"[", "t", "p">>, exit_comment) THEN "tp"
    ELSE IF Contains(<<"[", "s", "l">>, exit_comment) THEN "sl"
    ELSE "synced"

\* A deal of the history (mt5.history_deals_get, deal._asdict()); type 0 = buy, 1 = sell
Symbol == "EURUSD"
Deal(p, ord, typ, tm, magic, com) ==
    [position_id |-> p, order |-> ord, type |-> typ, time |-> tm,
     price |-> PriceAt(tm), magic |-> magic, symbol |-> Symbol, volume |-> 1,
     commission |-> 1, comment |-> com]

\* bot_id of a row: the configured one of the worker's bot, or the one
\* _get_bot_id_from_deal builds, lines 281-291
BotId(sym, magic) == <<"Bot", sym, magic>>
SyncedBotId(sym, magic) == <<"Synced", sym, magic>>

\* A Trade object / row of the trades table, not closed; id 0 for an object that was
\* not read from the table
OpenedTrade(tkt, magic, bot, action, entry_price, commission, opened_at) ==
    [id |-> 0, ticket |-> tkt, magic_number |-> magic, bot_id |-> bot,
     symbol |-> bot[2], action |-> action, volume |-> 1, entry_price |-> entry_price,
     commission |-> commission, opened_at |-> opened_at,
     exit_price |-> Null, closed_at |-> Null, status |-> "opened",
     close_reason |-> "none"]

\* The fields a close sets on a Trade object
ClosedTrade(trade, exit_price, commission, closed_at, reason) ==
    [trade EXCEPT !.exit_price = exit_price, !.commission = commission,
                  !.closed_at = closed_at, !.status = "closed",
                  !.close_reason = reason]

\* get_trade_by_ticket answered None
NoTrade ==
    [id |-> 0, ticket |-> Null, magic_number |-> Null, bot_id |-> <<"none", "none", Null>>,
     symbol |-> "none", action |-> "none", volume |-> Null, entry_price |-> Null,
     commission |-> Null, opened_at |-> Null,
     exit_price |-> Null, closed_at |-> Null, status |-> "none",
     close_reason |-> "none"]

\* TradeRepository.save_trade, lines 111-147: INSERT; the id is the row number and
\* nothing constrains the ticket
save_trade(tbl, trade) == Append(tbl, [trade EXCEPT !.id = Len(tbl) + 1])

\* TradeRepository.get_trade_by_ticket, lines 197-208: the first row of the ticket,
\* whatever its status
get_trade_by_ticket(tbl, t) ==
    IF \E i \in 1..Len(tbl) : tbl[i].ticket = t
    THEN tbl[CHOOSE i \in 1..Len(tbl) :
               /\ tbl[i].ticket = t
               /\ \A j \in 1..(i - 1) : tbl[j].ticket # t]
    ELSE NoTrade

\* The columns an UPDATE of update_trade writes, taken from the Trade object
Written(row, trade) ==
    [row EXCEPT !.exit_price = trade.exit_price, !.commission = trade.commission,
                !.closed_at = trade.closed_at, !.status = trade.status,
                !.close_reason = trade.close_reason]

\* TradeRepository.update_trade, lines 149-195: by id when the object has one (no
\* test of the status), else by ticket among the opened rows
update_trade(tbl, trade) ==
    IF trade.id # 0
    THEN [i \in 1..Len(tbl) |-> IF tbl[i].id = trade.id THEN Written(tbl[i], trade)
                                ELSE tbl[i]]
    ELSE IF trade.ticket # Null
    THEN [i \in 1..Len(tbl) |->
             IF tbl[i].ticket = trade.ticket /\ tbl[i].status = "opened"
             THEN Written(tbl[i], trade) ELSE tbl[i]]
    ELSE tbl

\* cursor.rowcount > 0 of that UPDATE
updated(tbl, trade) ==
    IF trade.id # 0
    THEN \E i \in 1..Len(tbl) : tbl[i].id = trade.id
    ELSE /\ trade.ticket # Null
         /\ \E i \in 1..Len(tbl) : tbl[i].ticket = trade.ticket /\ tbl[i].status = "opened"

\* _group_deals_by_position, lines 124-139: the keys of the dict in insertion
\* order (deals with position_id 0 are skipped), and the list of one key
RECURSIVE GroupKeys(_)
GroupKeys(ds) ==
    IF ds = <<>> THEN <<>>
    ELSE LET init == GroupKeys(SubSeq(ds, 1, Len(ds) - 1))
             pos_id == ds[Len(ds)].position_id
         IN IF pos_id = 0 \/ (\E i \in 1..Len(init) : init[i] = pos_id)
            THEN init ELSE Append(init, pos_id)

IsOfPosition(d, pos_id) == d.position_id = pos_id
GroupDeals(ds, pos_id) == SelectSeq(ds, LAMBDA d : IsOfPosition(d, pos_id))

\* sorted(deals, key=time), line 153: a stable sort
RECURSIVE SortByTime(_)
SortByTime(ds) ==
    IF Len(ds) <= 1 THEN ds
    ELSE LET init == SortByTime(SubSeq(ds, 1, Len(ds) - 1))
             d == ds[Len(ds)]
             k == Cardinality({i \in 1..Len(init) : init[i].time <= d.time})
         IN SubSeq(init, 1, k) \o <<d>> \o SubSeq(init, k + 1, Len(init))

\* Rows of the trades table (Trade.status, Trade.close_reason); NoRow: no such ticket
NoRow == <<"none", "none">>
OpenedRow == <<"opened", "none">>
ClosedRow(close_reason) == <<"closed", close_reason>>

\* StrategyBase.should_close_before_open / get_max_open_positions: the defaults
DefaultPolicy == <<TRUE, 1>>
Policies == BOOLEAN \X (1..MaxPositions)

\* The broker holds no position of the bot, the trades table is empty
InitOrder(policies) ==
    /\ \E policy \in policies : /\ close_before_open = policy[1]
                                /\ max_open_positions = policy[2]
    /\ positions = {}
    /\ next_ticket = 1
    /\ trades = [t \in Tickets |-> NoRow]
    /\ current_positions = [w \in Workers |-> 0]
    /\ to_close = [w \in Workers |-> <<>>]
    /\ ticket = [w \in Workers |-> 0]
    /\ generated = [w \in Workers |-> FALSE]
    /\ signal_events = [w \in Workers |-> 0]
    /\ opened_events = [w \in Workers |-> 0]
    /\ submitted = [w \in Workers |-> 0]
    /\ attempted = [w \in Workers |-> {}]
    /\ held = [w \in Workers |-> {}]
    /\ outage = [w \in Workers |-> 0]

\* AppDirector.__init__: an empty registry, no thread, global pause off
InitFleet ==
    /\ status = [b \in Bots |-> "none"]
    /\ gen = [b \in Bots |-> 0]
    /\ stop_event = [w \in Workers |-> FALSE]
    /\ pause_event = [w \in Workers |-> FALSE]
    /\ wpc = [w \in Workers |-> "unborn"]
    /\ consecutive_errors = [w \in Workers |-> 0]
    /\ lock = LockFree
    /\ global_paused = FALSE
    /\ cpc = [c \in Callers |-> "idle"]
    /\ cop = [c \in Callers |-> "none"]
    /\ carg = [c \in Callers |-> 1]
    /\ cthread = [c \in Callers |-> 0]
    /\ config = [b \in Bots |-> NoConfig]
    /\ iteration = [w \in Workers |-> 0]
    /\ saw_open = [w \in Workers |-> FALSE]
    /\ market_open_at_add = [b \in Bots |-> TRUE]
    /\ session = "up"
    /\ InitCmd
    /\ InitAll
    /\ InitSnap

\* No event (None)
NoEvent == [type |-> "none", seq |-> 0]

\* EventBus.__init__, lines 68-77, with nobody inside the bus
InitBus ==
    /\ subscribers = [t \in EventTypes |-> <<>>]
    /\ event_history = <<>>
    /\ bus_lock = 0
    /\ bpc = [p \in Publishers |-> "idle"]
    /\ bevent = [p \in Publishers |-> NoEvent]
    /\ callbacks = [p \in Publishers |-> <<>>]
    /\ invoked = [p \in Publishers |-> <<>>]
    /\ at_publish = [p \in Publishers |-> <<>>]
    /\ published = <<>>
    /\ next_event = 1
    /\ recent = <<>>
    /\ recent_args = <<"none", 0>>

\* The store before any trade: no row, no deal, nobody in the logger or the sync
EmptyStore == <<<<>>, <<>>, 1>>

InitStore(starts) ==
    /\ \E start \in starts : table = start[1] /\ deals = start[2] /\ now = start[3]
    /\ lpc = "idle"
    /\ lticket = 0
    /\ ltrade = NoTrade
    /\ lret = "none"
    /\ lbefore = <<>>
    /\ ypc = [s \in Syncers |-> "idle"]
    /\ ydeals = [s \in Syncers |-> <<>>]
    /\ ygroups = [s \in Syncers |-> <<>>]
    /\ ytrade = [s \in Syncers |-> NoTrade]
    /\ runs = 0
    /\ after_run = [done |-> 0, table |-> <<>>]
    /\ signals = <<>>

\* Before any get_bot_stats call
NoStats == [bot_id |-> 0, total_trades |-> 0, closed_trades |-> 0, open_trades |-> 0,
            wins |-> 0, losses |-> 0, total_profit |-> 0]

\* TradeRepository._init_db, trade_repository.py lines 46-80: the trades table exists
\* and is empty
InitStats ==
    /\ trade_rows = <<>>
    /\ stats = NoStats
    /\ stats_rows = <<>>

\* The iteration orders of a set of three strings
HashOrders == {<<1, 2, 3>>, <<1, 3, 2>>, <<2, 1, 3>>, <<2, 3, 1>>, <<3, 1, 2>>, <<3, 2, 1>>}

\* A terminal that lists the symbol under its plain name, no envelope configured
PlainBroker == [prefix |-> <<>>, suffix |-> <<>>, symbols |-> <<EURUSD>>,
                order |-> <<1, 2, 3>>]

\* BasicTrading.__init__, Easy_Trading.py lines 29-30, and the terminal's symbols
InitBroker(brokers) ==
    /\ \E br \in brokers : /\ symbol_prefix = br.prefix
                            /\ symbol_suffix = br.suffix
                            /\ all_symbols = br.symbols
                            /\ hash_order = br.order
    /\ requested = NoName
    /\ resolved = NoName

Init ==
    /\ InitFleet /\ InitOrder({DefaultPolicy}) /\ InitStore({EmptyStore}) /\ InitBus
    /\ InitBroker({PlainBroker})
    /\ InitStats

\* threading.Event.set(): sets the flag and releases every thread blocked in wait()
EventSetReleases(pcs, w) ==
    IF pcs[w] = "gate_wait" THEN [pcs EXCEPT ![w] = "stopchk"] ELSE pcs

\* ------------------------------------------------------------ worker loop

\* _run_bot, lines 319-321: the worker's initial status write
WorkerStart(w) ==
    /\ wpc[w] = "start"
    /\ lock = LockFree
    /\ status' = IF Registered(BotOf(w))
                 THEN [status EXCEPT ![BotOf(w)] = "running"] ELSE status
    /\ wpc' = [wpc EXCEPT ![w] = "start_write"]
    /\ UNCHANGED <<gen, stop_event, pause_event, consecutive_errors, lock, global_paused, config>>
    /\ UNCHANGED callerVars

\* The positions of _run_bot at which it calls self._write_state_file()
WorkerWriteSites == {"start_write", "wm_write", "run_write", "exit_write"}

AfterWrite(pc) ==
    CASE pc = "start_write" -> "loop"
      [] pc = "wm_write" -> "loop"
      [] pc = "run_write" -> "strategy"
      [] pc = "exit_write" -> "dead"

\* _write_state_file as called by a worker: it takes self.lock itself (line 136),
\* so it blocks for as long as the mutex is held -- also when the holder is the
\* calling thread, whose own `with` block would end only after the call returns.
WorkerWriteState(w) ==
    /\ wpc[w] \in WorkerWriteSites
    /\ lock = LockFree
    /\ wpc' = [wpc EXCEPT ![w] = AfterWrite(wpc[w])]
    /\ UNCHANGED <<status, gen, stop_event, pause_event, consecutive_errors,
                   lock, global_paused, config>>
    /\ UNCHANGED callerVars

\* line 326: while not stop_event.is_set()
WorkerLoop(w) ==
    /\ wpc[w] = "loop"
    /\ wpc' = [wpc EXCEPT ![w] = IF stop_event[w] THEN "exit" ELSE "gate"]
    /\ UNCHANGED <<status, gen, stop_event, pause_event, consecutive_errors,
                   lock, global_paused, config>>
    /\ UNCHANGED callerVars

\* line 328: pause_event.wait()
WorkerGate(w) ==
    /\ wpc[w] = "gate"
    /\ wpc' = [wpc EXCEPT ![w] = IF pause_event[w] THEN "stopchk" ELSE "gate_wait"]
    /\ UNCHANGED <<status, gen, stop_event, pause_event, consecutive_errors,
                   lock, global_paused, config>>
    /\ UNCHANGED callerVars

\* lines 331-334: stop check after the gate (then iteration += 1)
WorkerStopCheck(w) ==
    /\ wpc[w] = "stopchk"
    /\ wpc' = [wpc EXCEPT ![w] = IF stop_event[w] THEN "exit" ELSE "health"]
    /\ UNCHANGED <<status, gen, stop_event, pause_event, consecutive_errors,
                   lock, global_paused, config>>
    /\ UNCHANGED callerVars

\* A faulty variant of lines 345-350 / 386-394 that gives up one error early
CountErrorEarly(w) ==
    LET n == consecutive_errors[w] + 1 IN
    /\ consecutive_errors' = [consecutive_errors EXCEPT ![w] = n]
    /\ wpc' = [wpc EXCEPT ![w] = IF n >= max_consecutive_errors - 1 THEN "exit" ELSE "loop"]

\* lines 386-394 (and 345-350): one more consecutive error; leave the loop at the budget
CountError(w) ==
    LET n == consecutive_errors[w] + 1 IN
    /\ consecutive_errors' = [consecutive_errors EXCEPT ![w] = n]
    /\ wpc' = [wpc EXCEPT ![w] = IF n >= max_consecutive_errors THEN "exit" ELSE "loop"]

\* line 384 and 396-400: the iteration succeeded; interruptible sleep, next iteration
IterationDone(w) ==
    /\ consecutive_errors' = [consecutive_errors EXCEPT ![w] = 0]
    /\ wpc' = [wpc EXCEPT ![w] = "loop"]

\* The answers a broker call can give: with faults it may also fail
Answers(faults) == IF faults THEN BOOLEAN ELSE {TRUE}

\* lines 338-350: health check; connected / reconnected are the broker's answers
WorkerHealth(w, faults) ==
    /\ wpc[w] = "health"
    /\ \E connected \in Answers(faults), reconnected \in BOOLEAN :
         IF connected
         THEN /\ wpc' = [wpc EXCEPT ![w] = "market"]
              /\ UNCHANGED consecutive_errors
         ELSE IF reconnected
              THEN /\ wpc' = [wpc EXCEPT ![w] = "market"]
                   /\ consecutive_errors' = [consecutive_errors EXCEPT ![w] = 0]
              ELSE CountError(w)
    /\ UNCHANGED <<status, gen, stop_event, pause_event, lock, global_paused, config>>
    /\ UNCHANGED callerVars

\* BasicTrading.check_connection, Easy_Trading.py lines 76-89, as called at line
\* 338 of _run_bot: connected sends the worker on, anything else into reconnect()
HealthCheck(w) ==
    /\ wpc[w] = "health"
    /\ wpc' = [wpc EXCEPT ![w] = IF session = "up" THEN "market" ELSE "rc_shutdown"]
    /\ UNCHANGED <<status, gen, stop_event, pause_event, consecutive_errors,
                   lock, global_paused, config, session>>
    /\ UNCHANGED callerVars

\* BasicTrading.reconnect, lines 103-109: mt5.shutdown() ends the session of the
\* process; nothing is locked around it
ReconnectShutdown(w) ==
    /\ wpc[w] = "rc_shutdown"
    /\ session' = "down"
    /\ wpc' = [wpc EXCEPT ![w] = "rc_init"]
    /\ UNCHANGED <<status, gen, stop_event, pause_event, consecutive_errors,
                   lock, global_paused, config>>
    /\ UNCHANGED callerVars

\* BasicTrading.reconnect, lines 111-116, and lines 341-350 of _run_bot:
\* _initialize_mt5 succeeds (counter to 0) or fails after its retries (one more error)
ReconnectInitialize(w) ==
    /\ wpc[w] = "rc_init"
    /\ \E initialized \in BOOLEAN :
         IF initialized
         THEN /\ session' = "up"
              /\ wpc' = [wpc EXCEPT ![w] = "market"]
              /\ consecutive_errors' = [consecutive_errors EXCEPT ![w] = 0]
         ELSE /\ CountError(w)
              /\ UNCHANGED session
    /\ UNCHANGED <<status, gen, stop_event, pause_event, lock, global_paused, config>>
    /\ UNCHANGED callerVars

\* The terminal loses its connection to the trade server
ConnectionLost ==
    /\ session = "up"
    /\ session' = "lost"
    /\ UNCHANGED base

\* line 353: the market-open gate of the iteration
WorkerMarketGate(w) ==
    /\ wpc[w] = "market"
    /\ \E open \in BOOLEAN :
         wpc' = [wpc EXCEPT ![w] = IF open THEN "run_lock" ELSE "wm_lock"]
    /\ UNCHANGED <<status, gen, stop_event, pause_event, consecutive_errors,
                   lock, global_paused, config>>
    /\ UNCHANGED callerVars

\* A faulty variant of lines 358-369 in which the `continue` is missing: the status
\* is set but the iteration goes on into run_strategy with the market closed
WorkerWaitingMarketNoContinue(w) ==
    /\ wpc[w] = "wm_lock"
    /\ lock = LockFree
    /\ status' = [status EXCEPT ![BotOf(w)] = "waiting_market"]
    /\ wpc' = [wpc EXCEPT ![w] = "strategy"]
    /\ UNCHANGED <<gen, stop_event, pause_event, consecutive_errors, global_paused, config, lock>>
    /\ UNCHANGED callerVars

\* lines 358-369: status to waiting_market; the state file is written inside the
\* `with self.lock:` block (line 363), so the mutex stays held by this worker
WorkerWaitingMarket(w) ==
    /\ wpc[w] = "wm_lock"
    /\ lock = LockFree
    /\ IF Registered(BotOf(w)) /\ status[BotOf(w)] # "waiting_market"
       THEN /\ status' = [status EXCEPT ![BotOf(w)] = "waiting_market"]
            /\ lock' = HeldByWorker(w)
            /\ wpc' = [wpc EXCEPT ![w] = "wm_write"]
       ELSE /\ wpc' = [wpc EXCEPT ![w] = "loop"]
            /\ UNCHANGED <<status, lock>>
    /\ UNCHANGED <<gen, stop_event, pause_event, consecutive_errors, global_paused, config>>
    /\ UNCHANGED callerVars

\* lines 372-376: back to running when the bot was waiting; again the state file is
\* written inside the `with self.lock:` block (line 375)
WorkerRestoreRunning(w) ==
    /\ wpc[w] = "run_lock"
    /\ lock = LockFree
    /\ IF Registered(BotOf(w)) /\ status[BotOf(w)] = "waiting_market"
       THEN /\ status' = [status EXCEPT ![BotOf(w)] = "running"]
            /\ lock' = HeldByWorker(w)
            /\ wpc' = [wpc EXCEPT ![w] = "run_write"]
       ELSE /\ wpc' = [wpc EXCEPT ![w] = "strategy"]
            /\ UNCHANGED <<status, lock>>
    /\ UNCHANGED <<gen, stop_event, pause_event, consecutive_errors, global_paused, config>>
    /\ UNCHANGED callerVars

\* lines 404-407: the worker leaves the loop and marks the bot stopped
WorkerExit(w) ==
    /\ wpc[w] = "exit"
    /\ lock = LockFree
    /\ status' = IF Registered(BotOf(w))
                 THEN [status EXCEPT ![BotOf(w)] = "stopped"] ELSE status
    /\ wpc' = [wpc EXCEPT ![w] = "exit_write"]
    /\ UNCHANGED <<gen, stop_event, pause_event, consecutive_errors, lock, global_paused, config>>
    /\ UNCHANGED callerVars

\* ------------------------------------- SimpleTradingDirector.run_strategy

\* lines 379-394 of _run_bot: the whole director.run_strategy call as one step, for
\* the specifications that do not look inside it: it returns or it raises
RunStrategy(w, faults) ==
    /\ wpc[w] = "strategy"
    /\ \E ok \in Answers(faults) : IF ok THEN IterationDone(w) ELSE CountError(w)
    /\ UNCHANGED <<status, gen, stop_event, pause_event, lock, global_paused, config>>
    /\ UNCHANGED callerVars

\* GlobalState.should_skip_action -> is_globally_paused -> AppDirector.is_globally_paused:
\* an unlocked read of AppDirector.global_paused
should_skip_action == global_paused

\* lines 131-146 of run_strategy: fetch bars and generate the signal.  The broker
\* and the strategy decide the outcome: an exception, no data / hold, or buy / sell.
StrategySignal(w, faults) ==
    /\ wpc[w] = "strategy"
    /\ \E outcome \in {"hold", "signal"} \cup (IF faults THEN {"raise"} ELSE {}) :
         CASE outcome = "raise" -> CountError(w)
           [] outcome = "hold" -> IterationDone(w)
           [] outcome = "signal" ->
                /\ wpc' = [wpc EXCEPT ![w] = "sig_check"]
                /\ UNCHANGED consecutive_errors
    /\ UNCHANGED <<status, gen, stop_event, pause_event, lock, global_paused, config>>
    /\ UNCHANGED callerVars

\* on_signal_generated / on_trade_opened, event_bus.py lines 188-193 / 222-227:
\* the helper returns without emitting when global state says skip
EventCheck(w) ==
    /\ wpc[w] \in {"sig_check", "open_check"}
    /\ IF wpc[w] = "sig_check"
       THEN /\ wpc' = [wpc EXCEPT ![w] = IF should_skip_action THEN "mkt2" ELSE "sig_publish"]
            /\ UNCHANGED consecutive_errors
       ELSE IF should_skip_action
            THEN IterationDone(w)
            ELSE /\ wpc' = [wpc EXCEPT ![w] = "open_publish"]
                 /\ UNCHANGED consecutive_errors
    /\ UNCHANGED <<status, gen, stop_event, pause_event, lock, global_paused, config>>
    /\ UNCHANGED callerVars

\* event_bus.emit -> publish, lines 107-128: the subscribers' callbacks are invoked
EventPublish(w) ==
    /\ wpc[w] \in {"sig_publish", "open_publish"}
    /\ IF wpc[w] = "sig_publish"
       THEN /\ wpc' = [wpc EXCEPT ![w] = "mkt2"]
            /\ UNCHANGED consecutive_errors
       ELSE IterationDone(w)
    /\ UNCHANGED <<status, gen, stop_event, pause_event, lock, global_paused, config>>
    /\ UNCHANGED callerVars

\* lines 157-161 of run_strategy: the market re-check before acting on the signal
StrategyMarketCheck(w) ==
    /\ wpc[w] = "mkt2"
    /\ \E open \in BOOLEAN :
         IF open
         THEN /\ wpc' = [wpc EXCEPT ![w] = "order"]
              /\ UNCHANGED consecutive_errors
         ELSE IterationDone(w)
    /\ UNCHANGED <<status, gen, stop_event, pause_event, lock, global_paused, config>>
    /\ UNCHANGED callerVars

\* lines 163-243 of run_strategy: position policy, sizing and the order itself.
\* "skip": max positions reached; "raise": a broker call raised or the order was
\* rejected (_open_operations raises unless the retcode is DONE); "done": filled.
StrategyOrder(w, faults) ==
    /\ wpc[w] = "order"
    /\ \E outcome \in {"skip", "done"} \cup (IF faults THEN {"raise"} ELSE {}) :
         CASE outcome = "raise" -> CountError(w)
           [] outcome = "skip" -> IterationDone(w)
           [] outcome = "done" ->
                /\ wpc' = [wpc EXCEPT ![w] = "open_check"]
                /\ UNCHANGED consecutive_errors
    /\ UNCHANGED <<status, gen, stop_event, pause_event, lock, global_paused, config>>
    /\ UNCHANGED callerVars

\* The sequence of the elements of the set of bot ids S, ascending
RECURSIVE Ascending(_)
Ascending(S) ==
    IF S = {} THEN <<>>
    ELSE LET m == CHOOSE x \in S : \A y \in S : x <= y
         IN <<m>> \o Ascending(S \ {m})

\* ------------------------- run_strategy step by step: orders and the trades table

\* _open_operations, Easy_Trading.py lines 303-305: the order is sent under
\* get_actual_symbol(symbol), and the broker's position carries that name
actual_symbol == find_symbol_info(EURUSD)

\* get_opened_positions, lines 541-542: df_pos[df_pos['symbol'] == symbol], over
\* positions that were all opened by _open_operations
PositionsOn(symbol) == IF symbol = actual_symbol THEN positions ELSE {}

\* BasicTrading.get_opened_positions, Easy_Trading.py lines 520-552: the positions
\* matching (symbol, magic); a failed query is caught there and answers (0, empty)
get_opened_positions(ok) == IF ok THEN PositionsOn(EURUSD) ELSE {}

\* The unchanged part of the worker's and the fleet's state in a run_strategy step
StrategyFrame ==
    /\ UNCHANGED <<status, gen, stop_event, pause_event, lock, global_paused, config>>
    /\ UNCHANGED callerVars

\* lines 131-136 of run_strategy: extract_data raises, returns nothing, or returns bars
StrategyFetch(w, faults) ==
    /\ wpc[w] = "strategy"
    /\ \E outcome \in {"nodata", "bars"} \cup (IF faults THEN {"raise"} ELSE {}) :
         CASE outcome = "raise" -> CountError(w)
           [] outcome = "nodata" -> IterationDone(w)
           [] outcome = "bars" ->
                /\ wpc' = [wpc EXCEPT ![w] = "generate"]
                /\ UNCHANGED consecutive_errors
    /\ StrategyFrame
    /\ UNCHANGED orderVars

\* lines 138-146: strategy.generate_signal; anything but buy / sell returns at once
StrategyGenerate(w) ==
    /\ wpc[w] = "generate"
    /\ \E signal \in {"hold", "buy", "sell"} :
         IF signal \notin {"buy", "sell"}
         THEN IterationDone(w)
         ELSE /\ wpc' = [wpc EXCEPT ![w] = "sig_check"]
              /\ UNCHANGED consecutive_errors
    /\ StrategyFrame
    /\ UNCHANGED orderVars

\* lines 163-182: get_current_position_count (lines 99-115) and the position policy
PositionPolicy(w, faults) ==
    /\ wpc[w] = "order"
    /\ \E ok \in Answers(faults) :
         LET count == Cardinality(get_opened_positions(ok)) IN
         /\ current_positions' = [current_positions EXCEPT ![w] = count]
         /\ IF close_before_open
            THEN /\ wpc' = [wpc EXCEPT ![w] = IF count > 0 THEN "close_query" ELSE "size"]
                 /\ UNCHANGED consecutive_errors
            ELSE IF count >= max_open_positions
                 THEN IterationDone(w)
                 ELSE /\ wpc' = [wpc EXCEPT ![w] = "size"]
                      /\ UNCHANGED consecutive_errors
    /\ StrategyFrame
    /\ UNCHANGED <<close_before_open, max_open_positions, positions, next_ticket, trades,
                   to_close, ticket>>

\* close_existing_positions, lines 57-64: the positions are queried again
CloseQuery(w, faults) ==
    /\ wpc[w] = "close_query"
    /\ \E ok \in Answers(faults) :
         LET df_positions == get_opened_positions(ok) IN
         /\ to_close' = [to_close EXCEPT ![w] = Ascending(df_positions)]
         /\ wpc' = [wpc EXCEPT ![w] = IF df_positions = {} THEN "size" ELSE "closing"]
    /\ StrategyFrame
    /\ UNCHANGED <<consecutive_errors, close_before_open, max_open_positions, positions,
                   next_ticket, trades, current_positions, ticket>>

\* TradeLogger.log_trade_closed, trade_logger.py lines 118-137: the row of the
\* ticket becomes closed; without a row there is only a warning
log_trade_closed(t, close_reason) ==
    IF trades[t] = NoRow THEN trades ELSE [trades EXCEPT ![t] = ClosedRow(close_reason)]

\* close_existing_positions, lines 64-97: one round of the loop over df_positions.
\* "done": the broker closed the position and the closure is logged;
\* "failed": close_position_by_ticket answered None, the loop goes on;
\* "store_error": the position is closed but log_trade_closed raised, which the
\* except clause of line 95 turns into `return 0`.
CloseOne(w, faults) ==
    LET t == Head(to_close[w])
        rest == Tail(to_close[w]) IN
    /\ wpc[w] = "closing"
    /\ \E outcome \in {"done"} \cup (IF faults THEN {"failed", "store_error"} ELSE {}) :
         CASE outcome = "done" ->
                /\ positions' = positions \ {t}
                /\ trades' = log_trade_closed(t, "signal")
                /\ to_close' = [to_close EXCEPT ![w] = rest]
                /\ wpc' = [wpc EXCEPT ![w] = IF rest = <<>> THEN "size" ELSE "closing"]
           [] outcome = "failed" ->
                /\ to_close' = [to_close EXCEPT ![w] = rest]
                /\ wpc' = [wpc EXCEPT ![w] = IF rest = <<>> THEN "size" ELSE "closing"]
                /\ UNCHANGED <<positions, trades>>
           [] outcome = "store_error" ->
                /\ positions' = positions \ {t}
                /\ to_close' = [to_close EXCEPT ![w] = <<>>]
                /\ wpc' = [wpc EXCEPT ![w] = "size"]
                /\ UNCHANGED trades
    /\ StrategyFrame
    /\ UNCHANGED <<consecutive_errors, close_before_open, max_open_positions,
                   next_ticket, current_positions, ticket>>

\* lines 184-192: info_account, position size, SL / TP; info_account can raise
StrategySize(w, faults) ==
    /\ wpc[w] = "size"
    /\ \E ok \in Answers(faults) :
         IF ok
         THEN /\ wpc' = [wpc EXCEPT ![w] = "submit"]
              /\ UNCHANGED consecutive_errors
         ELSE CountError(w)
    /\ StrategyFrame
    /\ UNCHANGED orderVars

\* lines 195-205 and 240-243: buy / sell.  _open_operations (Easy_Trading.py lines
\* 296-385) raises unless the retcode is DONE, and run_strategy re-raises.
StrategySubmit(w) ==
    /\ wpc[w] = "submit"
    /\ \E outcome \in {"rejected"} \cup (IF next_ticket <= MaxTickets THEN {"done"} ELSE {}) :
         IF outcome = "done"
         THEN /\ ticket' = [ticket EXCEPT ![w] = next_ticket]
              /\ positions' = positions \cup {next_ticket}
              /\ next_ticket' = next_ticket + 1
              /\ wpc' = [wpc EXCEPT ![w] = "persist"]
              /\ UNCHANGED consecutive_errors
         ELSE /\ CountError(w)
              /\ UNCHANGED <<ticket, positions, next_ticket>>
    /\ StrategyFrame
    /\ UNCHANGED <<close_before_open, max_open_positions, trades, current_positions,
                   to_close>>

\* A faulty variant of lines 207-220 in which the trade is not logged before the
\* trade_opened event is emitted
StrategyPersistSkipped(w, faults) ==
    /\ wpc[w] = "persist"
    /\ wpc' = [wpc EXCEPT ![w] = "open_check"]
    /\ StrategyFrame
    /\ UNCHANGED <<consecutive_errors, orderVars>>

\* lines 207-220: trade_logger.log_trade_opened -> repository.save_trade inserts the
\* row with status opened; an exception of the store leaves run_strategy (line 243)
StrategyPersist(w, faults) ==
    /\ wpc[w] = "persist"
    /\ \E ok \in Answers(faults) :
         IF ok
         THEN /\ trades' = [trades EXCEPT ![ticket[w]] = OpenedRow]
              /\ wpc' = [wpc EXCEPT ![w] = "open_check"]
              /\ UNCHANGED consecutive_errors
         ELSE /\ CountError(w)
              /\ UNCHANGED trades
    /\ StrategyFrame
    /\ UNCHANGED <<close_before_open, max_open_positions, positions, next_ticket,
                   current_positions, to_close, ticket>>

\* ------------------------------------------------------- fleet controller

Ops == {"add", "pause", "resume", "stop", "restart"}

\* The return statements of the controller operations
ReturnSites == {"add_ret_exists", "add_ret_magic", "add_ret_true",
                "pause_ret_noexist", "pause_ret_already", "pause_ret_true",
                "resume_ret_noexist", "resume_ret_notpaused", "resume_ret_true",
                "stop_ret_noexist", "stop_ret_true", "stop_raised",
                "restart_ret_noexist", "restart_ret_true"}

RestartsInProgress(b) ==
    Cardinality({c \in Callers : cop[c] = "restart" /\ carg[c] = b /\ cpc[c] # "idle"})

\* A caller (command processor, lines 191-202, or the REPL) calls a controller
\* operation.  restart_bot is called at most MaxGen times per bot.
Call(c, ops, bots) ==
    /\ cpc[c] = "idle"
    /\ \E op \in ops, b \in bots :
         /\ op = "restart" /\ Registered(b) => gen[b] + RestartsInProgress(b) < MaxGen
         /\ cop' = [cop EXCEPT ![c] = op]
         /\ carg' = [carg EXCEPT ![c] = b]
         /\ cpc' = [cpc EXCEPT ![c] = op \o "_lock"]
    /\ UNCHANGED <<status, gen, lock, global_paused, config, cthread>>
    /\ UNCHANGED workerVars

\* add_bot, lines 242-252: a registered bot (whatever its status) of another
\* strategy class has the magic number of the new bot
MagicTaken(bot_config) ==
    \E e \in Bots :
        /\ Registered(e)
        /\ magic_number(config[e]) = magic_number(bot_config)
        /\ strategy_class(config[e]) # strategy_class(bot_config)

\* A faulty variant of add_bot without the magic-number check of lines 242-252
AddBotAnyMagic(c, configs) ==
    LET b == carg[c]  w == <<carg[c], 0>> IN
    /\ cpc[c] = "add_lock"
    /\ lock = LockFree
    /\ \E bot_config \in configs :
         IF Registered(b)
         THEN /\ cpc' = [cpc EXCEPT ![c] = "add_ret_exists"]
              /\ UNCHANGED <<status, stop_event, pause_event, wpc, config>>
         ELSE /\ status' = [status EXCEPT ![b] = "starting"]
              /\ config' = [config EXCEPT ![b] = bot_config]
              /\ stop_event' = [stop_event EXCEPT ![w] = FALSE]
              /\ pause_event' = [pause_event EXCEPT ![w] = TRUE]
              /\ wpc' = [wpc EXCEPT ![w] = "start"]
              /\ cpc' = [cpc EXCEPT ![c] = "add_write"]
    /\ UNCHANGED <<gen, consecutive_errors, lock, global_paused, cop, carg, cthread>>

\* A faulty variant of add_bot that takes the id of a stopped bot for free and
\* registers the new bot over it
AddBotOverStopped(c, configs) ==
    LET b == carg[c]  w == <<carg[c], 0>> IN
    /\ cpc[c] = "add_lock"
    /\ lock = LockFree
    /\ \E bot_config \in configs :
         IF Registered(b) /\ status[b] # "stopped"
         THEN /\ cpc' = [cpc EXCEPT ![c] = "add_ret_exists"]
              /\ UNCHANGED <<status, stop_event, pause_event, wpc, config>>
         ELSE IF MagicTaken(bot_config)
         THEN /\ cpc' = [cpc EXCEPT ![c] = "add_ret_magic"]
              /\ UNCHANGED <<status, stop_event, pause_event, wpc, config>>
         ELSE /\ status' = [status EXCEPT ![b] = "starting"]
              /\ config' = [config EXCEPT ![b] = bot_config]
              /\ stop_event' = [stop_event EXCEPT ![w] = FALSE]
              /\ pause_event' = [pause_event EXCEPT ![w] = TRUE]
              /\ wpc' = [wpc EXCEPT ![w] = "start"]
              /\ cpc' = [cpc EXCEPT ![c] = "add_write"]
    /\ UNCHANGED <<gen, consecutive_errors, lock, global_paused, cop, carg, cthread>>

\* add_bot, lines 232-299, one `with self.lock:` block: reject a duplicate id or a
\* magic number owned by another strategy class, else register the bot as
\* 'starting' with pause_event set, and start the thread.
\* (The broker's market_open answer of line 255 only selects the message printed.)
AddBot(c, configs) ==
    LET b == carg[c]  w == <<carg[c], 0>> IN
    /\ cpc[c] = "add_lock"
    /\ lock = LockFree
    /\ \E bot_config \in configs :
         IF Registered(b)
         THEN /\ cpc' = [cpc EXCEPT ![c] = "add_ret_exists"]
              /\ UNCHANGED <<status, stop_event, pause_event, wpc, config>>
         ELSE IF MagicTaken(bot_config)
         THEN /\ cpc' = [cpc EXCEPT ![c] = "add_ret_magic"]
              /\ UNCHANGED <<status, stop_event, pause_event, wpc, config>>
         ELSE /\ status' = [status EXCEPT ![b] = "starting"]
              /\ config' = [config EXCEPT ![b] = bot_config]
              /\ stop_event' = [stop_event EXCEPT ![w] = FALSE]
              /\ pause_event' = [pause_event EXCEPT ![w] = TRUE]
              /\ wpc' = [wpc EXCEPT ![w] = "start"]
              /\ cpc' = [cpc EXCEPT ![c] = "add_write"]
    /\ UNCHANGED <<gen, consecutive_errors, lock, global_paused, cop, carg, cthread>>

\* _check_global_pause, lines 412-414
AllPaused(st) ==
    /\ \A b \in Bots : st[b] \notin {"none", "stopped"} => st[b] = "paused"
    /\ \E b \in Bots : st[b] # "none"

\* _check_global_pause, lines 415-422: the new value of global_paused
CheckGlobalPause(st, flag) ==
    IF AllPaused(st) /\ ~flag THEN TRUE
    ELSE IF ~AllPaused(st) /\ flag THEN FALSE
    ELSE flag

\* pause_bot, lines 436-447; the mutex stays held for the event emission
PauseBot(c) ==
    LET b == carg[c] IN
    /\ cpc[c] = "pause_lock"
    /\ lock = LockFree
    /\ IF ~Registered(b)
       THEN /\ cpc' = [cpc EXCEPT ![c] = "pause_ret_noexist"]
            /\ UNCHANGED <<status, pause_event, lock>>
       ELSE IF status[b] = "paused"
       THEN /\ cpc' = [cpc EXCEPT ![c] = "pause_ret_already"]
            /\ UNCHANGED <<status, pause_event, lock>>
       ELSE /\ pause_event' = [pause_event EXCEPT ![Current(b)] = FALSE]
            /\ status' = [status EXCEPT ![b] = "paused"]
            /\ lock' = HeldByCaller(c)
            /\ cpc' = [cpc EXCEPT ![c] = "pause_emit"]
    /\ UNCHANGED <<gen, stop_event, wpc, consecutive_errors, global_paused, config,
                   cop, carg, cthread>>

\* A faulty variant of resume_bot without the `status != 'paused'` guard of line
\* 467: it sets running whatever the status was
ResumeBotNoGuard(c) ==
    LET b == carg[c] IN
    /\ cpc[c] = "resume_lock"
    /\ lock = LockFree
    /\ IF ~Registered(b)
       THEN /\ cpc' = [cpc EXCEPT ![c] = "resume_ret_noexist"]
            /\ UNCHANGED <<status, pause_event, wpc, lock>>
       ELSE /\ pause_event' = [pause_event EXCEPT ![Current(b)] = TRUE]
            /\ wpc' = EventSetReleases(wpc, Current(b))
            /\ status' = [status EXCEPT ![b] = "running"]
            /\ lock' = HeldByCaller(c)
            /\ cpc' = [cpc EXCEPT ![c] = "resume_emit"]
    /\ UNCHANGED <<gen, stop_event, consecutive_errors, global_paused, config,
                   cop, carg, cthread>>

\* resume_bot, lines 462-473; the mutex stays held for the event emission
ResumeBot(c) ==
    LET b == carg[c] IN
    /\ cpc[c] = "resume_lock"
    /\ lock = LockFree
    /\ IF ~Registered(b)
       THEN /\ cpc' = [cpc EXCEPT ![c] = "resume_ret_noexist"]
            /\ UNCHANGED <<status, pause_event, wpc, lock>>
       ELSE IF status[b] # "paused"
       THEN /\ cpc' = [cpc EXCEPT ![c] = "resume_ret_notpaused"]
            /\ UNCHANGED <<status, pause_event, wpc, lock>>
       ELSE /\ pause_event' = [pause_event EXCEPT ![Current(b)] = TRUE]
            /\ wpc' = EventSetReleases(wpc, Current(b))
            /\ status' = [status EXCEPT ![b] = "running"]
            /\ lock' = HeldByCaller(c)
            /\ cpc' = [cpc EXCEPT ![c] = "resume_emit"]
    /\ UNCHANGED <<gen, stop_event, consecutive_errors, global_paused, config,
                   cop, carg, cthread>>

\* pause_bot line 449 / resume_bot line 475: on_bot_status_change publishes the
\* event (callbacks run) inside the `with self.lock:` block, which then ends
EmitLocked(c) ==
    /\ cpc[c] \in {"pause_emit", "resume_emit"}
    /\ lock = HeldByCaller(c)
    /\ lock' = LockFree
    /\ cpc' = [cpc EXCEPT ![c] = IF cpc[c] = "pause_emit" THEN "pause_check"
                                                           ELSE "resume_check"]
    /\ UNCHANGED <<status, gen, global_paused, config, cop, carg, cthread>>
    /\ UNCHANGED workerVars

\* self._check_global_pause() as called at lines 450, 476, 500
CallerCheckGlobalPause(c) ==
    /\ cpc[c] \in {"pause_check", "resume_check", "stop_check"}
    /\ lock = LockFree
    /\ global_paused' = CheckGlobalPause(status, global_paused)
    /\ UNCHANGED config
    /\ cpc' = [cpc EXCEPT ![c] = CASE cpc[c] = "pause_check" -> "pause_write"
                                   [] cpc[c] = "resume_check" -> "resume_write"
                                   [] cpc[c] = "stop_check" -> "stop_write"]
    /\ UNCHANGED <<status, gen, lock, cop, carg, cthread>>
    /\ UNCHANGED workerVars

\* self._write_state_file() as called at lines 302, 451, 477, 501; after
\* stop_bot called by restart_bot, control returns into restart_bot (line 517)
CallerWriteState(c) ==
    /\ cpc[c] \in {"add_write", "pause_write", "resume_write", "stop_write"}
    /\ lock = LockFree
    /\ cpc' = [cpc EXCEPT ![c] = CASE cpc[c] = "add_write" -> "add_ret_true"
                                   [] cpc[c] = "pause_write" -> "pause_ret_true"
                                   [] cpc[c] = "resume_write" -> "resume_ret_true"
                                   [] cpc[c] = "stop_write" ->
                                        IF cop[c] = "restart" THEN "restart_swap"
                                                              ELSE "stop_ret_true"]
    /\ UNCHANGED <<status, gen, lock, global_paused, config, cop, carg, cthread>>
    /\ UNCHANGED workerVars

\* stop_bot, lines 482-490: signal stop, open the pause gate, remember the thread
StopBot(c) ==
    LET b == carg[c] IN
    /\ cpc[c] = "stop_lock"
    /\ lock = LockFree
    /\ IF ~Registered(b)
       THEN /\ cpc' = [cpc EXCEPT ![c] = "stop_ret_noexist"]
            /\ UNCHANGED <<stop_event, pause_event, wpc, cthread>>
       ELSE /\ stop_event' = [stop_event EXCEPT ![Current(b)] = TRUE]
            /\ pause_event' = [pause_event EXCEPT ![Current(b)] = TRUE]
            /\ wpc' = EventSetReleases(wpc, Current(b))
            /\ cthread' = [cthread EXCEPT ![c] = gen[b]]
            /\ cpc' = [cpc EXCEPT ![c] = "stop_join"]
    /\ UNCHANGED <<status, gen, consecutive_errors, lock, global_paused, config, cop, carg>>

\* stop_bot, line 493: thread.join(timeout=5) returns when the thread has ended or
\* when 5 s have passed; joining a thread that was never started raises RuntimeError
StopJoin(c) ==
    /\ cpc[c] = "stop_join"
    /\ cpc' = [cpc EXCEPT ![c] = IF wpc[<<carg[c], cthread[c]>>] = "created"
                                 THEN "stop_raised" ELSE "stop_mark"]
    /\ UNCHANGED <<status, gen, lock, global_paused, config, cop, carg, cthread>>
    /\ UNCHANGED workerVars

\* stop_bot, lines 495-499: mark the bot stopped, then emit bot_stopped (outside the mutex)
StopMark(c) ==
    /\ cpc[c] = "stop_mark"
    /\ lock = LockFree
    /\ status' = IF Registered(carg[c])
                 THEN [status EXCEPT ![carg[c]] = "stopped"] ELSE status
    /\ cpc' = [cpc EXCEPT ![c] = "stop_check"]
    /\ UNCHANGED <<gen, lock, global_paused, config, cop, carg, cthread>>
    /\ UNCHANGED workerVars

\* restart_bot, lines 507-515: look the bot up, then call stop_bot
RestartBot(c) ==
    /\ cpc[c] = "restart_lock"
    /\ lock = LockFree
    /\ cpc' = [cpc EXCEPT ![c] = IF Registered(carg[c]) THEN "stop_lock"
                                                        ELSE "restart_ret_noexist"]
    /\ UNCHANGED <<status, gen, lock, global_paused, config, cop, carg, cthread>>
    /\ UNCHANGED workerVars

\* restart_bot, lines 517-545: a new thread, new events (pause_event set) and a new
\* director replace the old ones in the registry; status 'starting'
RestartSwap(c) ==
    LET b == carg[c]  w == <<carg[c], gen[carg[c]] + 1>> IN
    /\ cpc[c] = "restart_swap"
    /\ lock = LockFree
    /\ gen[b] < MaxGen
    /\ gen' = [gen EXCEPT ![b] = gen[b] + 1]
    /\ stop_event' = [stop_event EXCEPT ![w] = FALSE]
    /\ pause_event' = [pause_event EXCEPT ![w] = TRUE]
    /\ wpc' = [wpc EXCEPT ![w] = "created"]
    /\ status' = [status EXCEPT ![b] = "starting"]
    /\ cpc' = [cpc EXCEPT ![c] = "restart_start"]
    /\ UNCHANGED <<consecutive_errors, lock, global_paused, config, cop, carg, cthread>>

\* restart_bot, lines 547-549: thread.start()
RestartStart(c) ==
    /\ cpc[c] = "restart_start"
    /\ wpc' = [wpc EXCEPT ![<<carg[c], gen[carg[c]]>>] = "start"]
    /\ cpc' = [cpc EXCEPT ![c] = "restart_ret_true"]
    /\ UNCHANGED <<status, gen, stop_event, pause_event, consecutive_errors,
                   lock, global_paused, config, cop, carg, cthread>>

\* The operation returns to its caller
Return(c) ==
    /\ cpc[c] \in ReturnSites
    /\ cpc' = [cpc EXCEPT ![c] = "idle"]
    /\ UNCHANGED <<status, gen, lock, global_paused, config, cop, carg, cthread>>
    /\ UNCHANGED workerVars

\* ------------------------------------------------- pause_all / resume_all

\* Bot ids are given in the order of registration: the next add_bot registers the
\* lowest unregistered id, so that list(active_bots.keys()) is ascending
NextToRegister == {b \in Bots : ~Registered(b) /\ \A e \in 1..(b - 1) : Registered(e)}

\* _read_and_process_commands, lines 203-204 / 207-208: the processor comes to a
\* pause_all or resume_all command of the list it took
TakeAll(c, op) ==
    /\ cpc[c] = "idle"
    /\ all_op[c] = "none"
    /\ all_op' = [all_op EXCEPT ![c] = op]
    /\ cpc' = [cpc EXCEPT ![c] = "list_bots"]
    /\ UNCHANGED <<status, gen, lock, global_paused, config, cop, carg, cthread, all_todo>>
    /\ UNCHANGED workerVars

\* list_bots, lines 621-622: the registry's keys, read under the mutex
ListBots(c) ==
    /\ cpc[c] = "list_bots"
    /\ lock = LockFree
    /\ all_todo' = [all_todo EXCEPT ![c] = Ascending({b \in Bots : Registered(b)})]
    /\ cpc' = [cpc EXCEPT ![c] = "all_next"]
    /\ UNCHANGED <<status, gen, lock, global_paused, config, cop, carg, cthread, all_op>>
    /\ UNCHANGED workerVars

\* lines 205-206 / 209-210: `for bid in self.list_bots(): self.pause_bot(bid)`
\* (resume_bot for resume_all); after the last bot the command is done
AllNext(c) ==
    /\ cpc[c] = "all_next"
    /\ IF all_todo[c] = <<>>
       THEN /\ all_op' = [all_op EXCEPT ![c] = "none"]
            /\ cpc' = [cpc EXCEPT ![c] = "idle"]
            /\ UNCHANGED <<cop, carg, all_todo>>
       ELSE /\ cop' = [cop EXCEPT ![c] = all_op[c]]
            /\ carg' = [carg EXCEPT ![c] = Head(all_todo[c])]
            /\ all_todo' = [all_todo EXCEPT ![c] = Tail(@)]
            /\ cpc' = [cpc EXCEPT ![c] = all_op[c] \o "_lock"]
            /\ UNCHANGED all_op
    /\ UNCHANGED <<status, gen, lock, global_paused, config, cthread>>
    /\ UNCHANGED workerVars

\* pause_bot / resume_bot / add_bot return: into the loop of a *_all command when
\* one is running, else to the caller
ReturnToAll(c) ==
    /\ cpc[c] \in ReturnSites
    /\ cpc' = [cpc EXCEPT ![c] = IF all_op[c] = "none" THEN "idle" ELSE "all_next"]
    /\ UNCHANGED <<status, gen, lock, global_paused, config, cop, carg, cthread,
                   all_op, all_todo>>
    /\ UNCHANGED workerVars

\* ------------------------------------------------------------ command file

\* send_bot_command, lines 29-39: a dashboard session starts to send a command
ConsumerStart(s) ==
    /\ spc[s] = "idle"
    /\ next_cmd <= MaxCmds
    /\ sending' = [sending EXCEPT ![s] = next_cmd]
    /\ next_cmd' = next_cmd + 1
    /\ spc' = [spc EXCEPT ![s] = "exists"]
    /\ UNCHANGED <<file_state, file_cmds, existing, orphan, written, ppc, commands,
                   dispatched>>

\* send_bot_command, line 41: os.path.exists(commands_file)
ConsumerExists(s) ==
    /\ spc[s] = "exists"
    /\ IF file_state # "absent"
       THEN /\ spc' = [spc EXCEPT ![s] = "load"]
            /\ UNCHANGED existing
       ELSE /\ spc' = [spc EXCEPT ![s] = "open_w"]
            /\ existing' = [existing EXCEPT ![s] = <<>>]
    /\ UNCHANGED <<file_state, file_cmds, sending, orphan, next_cmd, written, ppc,
                   commands, dispatched>>

\* send_bot_command, lines 42-45: open + json.load; a file that has gone, or that
\* holds no JSON yet, raises and the bare except leaves the list empty
ConsumerLoad(s) ==
    /\ spc[s] = "load"
    /\ existing' = [existing EXCEPT ![s] =
                        IF file_state = "list" THEN file_cmds ELSE <<>>]
    /\ spc' = [spc EXCEPT ![s] = "open_w"]
    /\ UNCHANGED <<file_state, file_cmds, sending, orphan, next_cmd, written, ppc,
                   commands, dispatched>>

\* send_bot_command, lines 48-55: append the new command to the local list and
\* open(commands_file, 'w'), which creates or truncates the file
ConsumerOpenW(s) ==
    /\ spc[s] = "open_w"
    /\ existing' = [existing EXCEPT ![s] = Append(@, sending[s])]
    /\ file_state' = "empty"
    /\ file_cmds' = <<>>
    /\ orphan' = [orphan EXCEPT ![s] = FALSE]
    /\ spc' = [spc EXCEPT ![s] = "dump"]
    /\ UNCHANGED <<sending, next_cmd, written, ppc, commands, dispatched>>

\* send_bot_command, line 56 and the end of the `with`: json.dump and close put
\* the list into the file -- into a file nobody can open any more when it was
\* removed meanwhile
ConsumerDump(s) ==
    /\ spc[s] = "dump"
    /\ IF orphan[s]
       THEN UNCHANGED <<file_state, file_cmds>>
       ELSE /\ file_state' = "list"
            /\ file_cmds' = existing[s]
    /\ written' = written \cup {sending[s]}
    /\ spc' = [spc EXCEPT ![s] = "idle"]
    /\ UNCHANGED <<existing, sending, orphan, next_cmd, ppc, commands, dispatched>>

\* _read_and_process_commands, lines 171-172: the poll finds the file
ProcExists ==
    /\ ppc = "wait"
    /\ file_state # "absent"
    /\ ppc' = "load"
    /\ UNCHANGED <<file_state, file_cmds, spc, existing, sending, orphan, next_cmd,
                   written, commands, dispatched>>

\* lines 175-176: open + json.load; JSONDecodeError goes to lines 212-218, any
\* other exception to lines 219-220
ProcLoad ==
    /\ ppc = "load"
    /\ IF file_state = "list"
       THEN /\ commands' = file_cmds
            /\ ppc' = "remove"
       ELSE IF file_state = "empty"
       THEN /\ ppc' = "remove_bad"
            /\ UNCHANGED commands
       ELSE /\ ppc' = "wait"
            /\ UNCHANGED commands
    /\ UNCHANGED <<file_state, file_cmds, spc, existing, sending, orphan, next_cmd,
                   written, dispatched>>

\* os.remove(commands_file): the path is gone; a session that holds the file open
\* for writing goes on writing into the removed file
Removed(o) == [s \in Consumers |-> o[s] \/ spc[s] = "dump"]

\* line 179: os.remove after the read; lines 181-182: nothing to do for an empty list
ProcRemove ==
    /\ ppc = "remove"
    /\ file_state' = "absent"
    /\ file_cmds' = <<>>
    /\ orphan' = Removed(orphan)
    /\ ppc' = IF commands = <<>> THEN "wait" ELSE "dispatch"
    /\ UNCHANGED <<spc, existing, sending, next_cmd, written, commands, dispatched>>

\* lines 212-218: the file held no JSON; it is removed with a warning
ProcRemoveBad ==
    /\ ppc = "remove_bad"
    /\ file_state' = "absent"
    /\ file_cmds' = <<>>
    /\ orphan' = Removed(orphan)
    /\ ppc' = "wait"
    /\ UNCHANGED <<spc, existing, sending, next_cmd, written, commands, dispatched>>

\* How often command id i occurs in the list q
Occurrences(i, q) == Cardinality({k \in 1..Len(q) : q[k] = i})

\* lines 184-210: every command of the list that was read is dispatched to its
\* controller operation (the operations themselves: see the fleet controller)
ProcDispatch ==
    /\ ppc = "dispatch"
    /\ dispatched' = [i \in CmdIds |->
                         IF dispatched[i] + Occurrences(i, commands) >= 2 THEN 2
                         ELSE dispatched[i] + Occurrences(i, commands)]
    /\ commands' = <<>>
    /\ ppc' = "wait"
    /\ UNCHANGED <<file_state, file_cmds, spc, existing, sending, orphan, next_cmd,
                   written>>

\* ------------------------------------- trade logger and trade sync service

\* Everything but the trade store
StoreFrame == UNCHANGED <<base, observed, cmdVars, allVars, orderVars, orderObs,
                          connVars, lateVars, busVars, signalVars>>

LoggerVars == <<lpc, lticket, ltrade, lret, lbefore>>
SyncVars == <<ypc, ydeals, ygroups, ytrade, runs, after_run>>

\* The deals of position p in the broker's history, and whether it is open there
DealsOfPosition(p) == GroupDeals(deals, p)
IsOpen(p) == Len(DealsOfPosition(p)) = 1

\* The order ticket the closing deal of a position gets
ExitOrder(p) == NumPositions + p

\* Every deal taken for a buy
ActionAlwaysBuy(typ) == "buy"

\* 'buy' if deal_type == 0 else 'sell'
ActionOf(typ) == IF typ = 0 THEN "buy" ELSE "sell"

\* run_strategy lines 196-203: the market order is filled (retcode DONE); the broker
\* records the entry deal, whose order ticket is the position's; the worker is about
\* to log the trade with the values it holds
OrderFilled(typ) ==
    LET p == Cardinality({deals[i].position_id : i \in 1..Len(deals)} \ {0}) + 1 IN
    /\ lpc = "idle"
    /\ p \in 1..MaxOrders
    /\ deals' = Append(deals, Deal(p, p, typ, now, 1, <<>>))
    /\ lticket' = p
    /\ ltrade' = OpenedTrade(p, 1, BotId(Symbol, 1), ActionOf(typ), PriceAt(now), Null, Null)
    /\ lpc' = "persist"
    /\ UNCHANGED <<table, now, lret, lbefore, SyncVars>>

\* TradeLogger.log_trade_opened, lines 73-93: opened_at = datetime.now() and INSERT;
\* an INSERT that raises (sqlite3.OperationalError) leaves no row, and run_strategy's
\* except clause, lines 238-243, ends the iteration
LogTradeOpened ==
    /\ lpc = "persist"
    /\ \E ok \in BOOLEAN :
          table' = IF ok THEN save_trade(table, [ltrade EXCEPT !.opened_at = now])
                   ELSE table
    /\ lpc' = "idle"
    /\ ltrade' = NoTrade
    /\ UNCHANGED <<deals, now, lticket, lret, lbefore, SyncVars>>

\* The broker closes an open position on its stop loss or take profit: an exit deal
\* with the server's comment
BrokerExit(p, com) ==
    /\ IsOpen(p)
    /\ deals' = Append(deals, Deal(p, ExitOrder(p), 1 - DealsOfPosition(p)[1].type, now,
                                   DealsOfPosition(p)[1].magic, com))
    /\ UNCHANGED <<table, now, LoggerVars, SyncVars>>

\* close_existing_positions lines 64-80: close_position_by_ticket succeeds for an
\* open position (Easy_Trading.py line 456: comment 'Close position'); the worker is
\* about to call log_trade_closed(ticket, result.price, profit, "signal")
ClosePosition(p) ==
    /\ lpc = "idle"
    /\ IsOpen(p)
    /\ deals' = Append(deals, Deal(p, ExitOrder(p), 1 - DealsOfPosition(p)[1].type, now,
                                   DealsOfPosition(p)[1].magic,
                                   <<"C", "l", "o", "s", "e">>))
    /\ lticket' = p
    /\ lpc' = "closed_read"
    /\ UNCHANGED <<table, now, ltrade, lret, lbefore, SyncVars>>

\* TradeLogger.log_trade_closed, lines 118-138: get_trade_by_ticket; None gives the
\* warning and False; else the fields of the Trade object are set, closed_at from
\* the clock
LogClosedRead ==
    LET trade == get_trade_by_ticket(table, lticket)
        exit_deal == DealsOfPosition(lticket)[Len(DealsOfPosition(lticket))]
    IN
    /\ lpc = "closed_read"
    /\ lbefore' = table
    /\ IF trade = NoTrade
       THEN /\ lret' = "False"
            /\ lpc' = "idle"
            /\ ltrade' = NoTrade
       ELSE /\ ltrade' = ClosedTrade(trade, exit_deal.price, 0, now, "signal")
            /\ lpc' = "closed_write"
            /\ lret' = "none"
    /\ UNCHANGED <<table, deals, now, lticket, SyncVars>>

\* TradeLogger.log_trade_closed, lines 140-144: update_trade and its result
LogClosedWrite ==
    /\ lpc = "closed_write"
    /\ table' = update_trade(table, ltrade)
    /\ lret' = IF updated(table, ltrade) THEN "True" ELSE "False"
    /\ lpc' = "idle"
    /\ UNCHANGED <<deals, now, lticket, ltrade, lbefore, SyncVars>>

\* The clock moves on
Tick ==
    /\ now < MaxTime
    /\ now' = now + 1
    /\ UNCHANGED <<table, deals, LoggerVars, SyncVars>>

\* sync_now, lines 75-78, or the loop's wake-up, lines 80-90: a cycle begins
SyncStart(s) ==
    /\ ypc[s] = "idle"
    /\ runs < MaxRuns
    /\ runs' = runs + 1
    /\ ypc' = [ypc EXCEPT ![s] = "fetch"]
    /\ UNCHANGED <<table, deals, now, LoggerVars, ydeals, ygroups, ytrade, after_run>>

\* _sync_with_mt5, lines 92-108: history_deals_get; None ends the cycle, else the
\* deals are grouped by position
SyncFetch(s) ==
    /\ ypc[s] = "fetch"
    /\ \E ok \in BOOLEAN :
          IF ok
          THEN /\ ydeals' = [ydeals EXCEPT ![s] = deals]
               /\ ygroups' = [ygroups EXCEPT ![s] = GroupKeys(deals)]
               /\ ypc' = [ypc EXCEPT ![s] = IF GroupKeys(deals) = <<>> THEN "done"
                                            ELSE "process"]
          ELSE /\ ypc' = [ypc EXCEPT ![s] = "idle"]
               /\ UNCHANGED <<ydeals, ygroups>>
    /\ UNCHANGED <<table, deals, now, LoggerVars, ytrade, runs, after_run>>

\* The locals of _process_position for the group at the head, lines 153-160
SortedDeals(s) == SortByTime(GroupDeals(ydeals[s], Head(ygroups[s])))
entry_deal(s) == SortedDeals(s)[1]
HasExit(s) == Len(SortedDeals(s)) > 1
exit_deal(s) == SortedDeals(s)[Len(SortedDeals(s))]

\* The loop of _sync_with_mt5, lines 110-116, goes to the next group
NextGroup(s) ==
    /\ ygroups' = [ygroups EXCEPT ![s] = Tail(ygroups[s])]
    /\ ypc' = [ypc EXCEPT ![s] = IF Tail(ygroups[s]) = <<>> THEN "done" ELSE "process"]

\* _process_position without its test of the status: every existing Trade of a group
\* with an exit deal is updated
ProcessPositionAnyStatus(s) ==
    LET existing_trade == get_trade_by_ticket(table, entry_deal(s).order) IN
    /\ ypc[s] = "process"
    /\ IF existing_trade # NoTrade
       THEN IF HasExit(s)
            THEN /\ ytrade' = [ytrade EXCEPT ![s] = existing_trade]
                 /\ ypc' = [ypc EXCEPT ![s] = "update"]
                 /\ UNCHANGED ygroups
            ELSE /\ NextGroup(s)
                 /\ UNCHANGED ytrade
       ELSE /\ ypc' = [ypc EXCEPT ![s] = "create"]
            /\ UNCHANGED <<ygroups, ytrade>>
    /\ UNCHANGED <<table, deals, now, LoggerVars, ydeals, runs, after_run>>

\* _process_position, lines 141-175: look the ticket up and choose
ProcessPosition(s) ==
    LET existing_trade == get_trade_by_ticket(table, entry_deal(s).order) IN
    /\ ypc[s] = "process"
    /\ IF existing_trade # NoTrade
       THEN IF existing_trade.status = "opened" /\ HasExit(s)
            THEN /\ ytrade' = [ytrade EXCEPT ![s] = existing_trade]
                 /\ ypc' = [ypc EXCEPT ![s] = "update"]
                 /\ UNCHANGED ygroups
            ELSE /\ NextGroup(s)
                 /\ UNCHANGED ytrade
       ELSE /\ ypc' = [ypc EXCEPT ![s] = "create"]
            /\ UNCHANGED <<ygroups, ytrade>>
    /\ UNCHANGED <<table, deals, now, LoggerVars, ydeals, runs, after_run>>

\* The Trade _create_trade_from_deals builds, lines 179-236
TradeFromDeals(entry, has_exit, exit) ==
    LET opened == OpenedTrade(entry.order, entry.magic,
                              SyncedBotId(entry.symbol, entry.magic),
                              ActionOf(entry.type), entry.price,
                              entry.commission + (IF has_exit THEN exit.commission ELSE 0),
                              entry.time)
    IN IF has_exit
       THEN ClosedTrade(opened, exit.price, opened.commission,
                        IF exit.time # 0 THEN exit.time ELSE Null,
                        CloseReasonOf(exit.comment))
       ELSE opened

\* _create_trade_from_deals, lines 177-247: INSERT the synthesized Trade
CreateTradeFromDeals(s) ==
    /\ ypc[s] = "create"
    /\ table' = save_trade(table, TradeFromDeals(entry_deal(s), HasExit(s), exit_deal(s)))
    /\ NextGroup(s)
    /\ UNCHANGED <<deals, now, LoggerVars, ydeals, ytrade, runs, after_run>>

\* `x or 0`
OrZero(x) == IF x = Null THEN 0 ELSE x

\* _update_trade_from_exit, lines 249-279: the Trade object read before is closed
\* from the exit deal and written with update_trade
UpdateTradeFromExit(s) ==
    /\ ypc[s] = "update"
    /\ table' = update_trade(table,
                    ClosedTrade(ytrade[s], exit_deal(s).price,
                                OrZero(ytrade[s].commission) + exit_deal(s).commission,
                                exit_deal(s).time, CloseReasonOf(exit_deal(s).comment)))
    /\ NextGroup(s)
    /\ UNCHANGED <<deals, now, LoggerVars, ydeals, ytrade, runs, after_run>>

\* _sync_with_mt5, lines 118-119: the cycle ends
SyncDone(s) ==
    /\ ypc[s] = "done"
    /\ ypc' = [ypc EXCEPT ![s] = "idle"]
    /\ after_run' = [done |-> after_run.done + 1, table |-> table]
    /\ UNCHANGED <<table, deals, now, LoggerVars, ydeals, ygroups, ytrade, runs>>

\* ------------------------------------------------------------- event bus

\* Everything but the event bus
BusFrame == UNCHANGED <<base, observed, cmdVars, allVars, orderVars, orderObs,
                        connVars, lateVars, storeVars, signalVars>>

\* list.remove(x): the first occurrence goes; ValueError (not in the list) is passed
RECURSIVE remove(_, _)
remove(list, x) ==
    IF list = <<>> THEN <<>>
    ELSE IF Head(list) = x THEN Tail(list)
    ELSE <<Head(list)>> \o remove(Tail(list), x)

\* list[-n:] of Python: the last n elements for 0 < n < len, the whole list for
\* n >= len and for n = 0 (since -0 is 0)
LastSlice(list, n) ==
    IF n = 0 \/ n >= Len(list) THEN list
    ELSE SubSeq(list, Len(list) - n + 1, Len(list))

\* [e for e in history if e.event_type == event_type], or the copy for None
IsOfType(e, event_type) == e.type = event_type
EventsOfType(history, event_type) ==
    IF event_type = "None" THEN history
    ELSE SelectSeq(history, LAMBDA e : IsOfType(e, event_type))

\* EventBus.subscribe, lines 79-90: append under the lock
Subscribe(event_type, callback) ==
    /\ bus_lock = 0
    /\ Len(subscribers[event_type]) < MaxSubs
    /\ subscribers' = [subscribers EXCEPT ![event_type] = Append(@, callback)]
    /\ UNCHANGED <<event_history, bus_lock, bpc, bevent, callbacks, invoked, at_publish,
                   published, next_event, recent, recent_args>>

\* EventBus.unsubscribe, lines 92-105: remove under the lock
Unsubscribe(event_type, callback) ==
    /\ bus_lock = 0
    /\ subscribers' = [subscribers EXCEPT ![event_type] = remove(@, callback)]
    /\ UNCHANGED <<event_history, bus_lock, bpc, bevent, callbacks, invoked, at_publish,
                   published, next_event, recent, recent_args>>

\* EventBus.publish, line 114: the publisher takes the lock
PublishAcquire(p, event_type) ==
    /\ bpc[p] = "idle"
    /\ bus_lock = 0
    /\ next_event <= MaxEvents
    /\ bus_lock' = p
    /\ bevent' = [bevent EXCEPT ![p] = [type |-> event_type, seq |-> next_event]]
    /\ next_event' = next_event + 1
    /\ invoked' = [invoked EXCEPT ![p] = <<>>]
    /\ bpc' = [bpc EXCEPT ![p] = "locked"]
    /\ UNCHANGED <<subscribers, event_history, callbacks, at_publish, published, recent,
                   recent_args>>

\* EventBus.publish, lines 115-121: the event goes to the history, which is cut to
\* its last max_history entries; the subscribers of the type are copied; the lock
\* is released
PublishRecord(p) ==
    /\ bpc[p] = "locked"
    /\ event_history' = LET appended == Append(event_history, bevent[p])
                        IN IF Len(appended) > max_history
                           THEN LastSlice(appended, max_history) ELSE appended
    /\ published' = Append(published, bevent[p])
    /\ callbacks' = [callbacks EXCEPT ![p] = subscribers[bevent[p].type]]
    /\ at_publish' = [at_publish EXCEPT ![p] = subscribers[bevent[p].type]]
    /\ bus_lock' = 0
    /\ bpc' = [bpc EXCEPT ![p] = "deliver"]
    /\ UNCHANGED <<subscribers, bevent, invoked, next_event, recent, recent_args>>

\* The loop of publish with a callback's exception ending the delivery
DeliverUntilRaise(p) ==
    /\ bpc[p] = "deliver"
    /\ callbacks[p] # <<>>
    /\ \E raised \in BOOLEAN :
          /\ invoked' = [invoked EXCEPT ![p] = Append(@, <<Head(callbacks[p]), raised>>)]
          /\ callbacks' = [callbacks EXCEPT ![p] = IF raised THEN <<>> ELSE Tail(@)]
    /\ UNCHANGED <<subscribers, event_history, bus_lock, bpc, bevent, at_publish,
                   published, next_event, recent, recent_args>>

\* EventBus.publish, lines 124-128: the next callback of the copy is called; an
\* Exception it raises is printed and the loop goes on
DeliverOne(p) ==
    /\ bpc[p] = "deliver"
    /\ callbacks[p] # <<>>
    /\ \E raised \in BOOLEAN :
          invoked' = [invoked EXCEPT ![p] = Append(@, <<Head(callbacks[p]), raised>>)]
    /\ callbacks' = [callbacks EXCEPT ![p] = Tail(@)]
    /\ UNCHANGED <<subscribers, event_history, bus_lock, bpc, bevent, at_publish,
                   published, next_event, recent, recent_args>>

\* EventBus.publish returns when the copy is exhausted; its locals are gone
PublishReturn(p) ==
    /\ bpc[p] = "deliver"
    /\ callbacks[p] = <<>>
    /\ bpc' = [bpc EXCEPT ![p] = "idle"]
    /\ bevent' = [bevent EXCEPT ![p] = NoEvent]
    /\ invoked' = [invoked EXCEPT ![p] = <<>>]
    /\ at_publish' = [at_publish EXCEPT ![p] = <<>>]
    /\ UNCHANGED <<subscribers, event_history, bus_lock, callbacks, published,
                   next_event, recent, recent_args>>

\* EventBus.get_recent_events, lines 142-159
get_recent_events(event_type, limit) ==
    /\ bus_lock = 0
    /\ recent' = LastSlice(EventsOfType(event_history, event_type), limit)
    /\ recent_args' = <<event_type, limit>>
    /\ UNCHANGED <<subscribers, event_history, bus_lock, bpc, bevent, callbacks, invoked,
                   at_publish, published, next_event>>

\* EventBus.clear_history, lines 161-164; `published` starts again with it
clear_history ==
    /\ bus_lock = 0
    /\ event_history # <<>>
    /\ event_history' = <<>>
    /\ published' = <<>>
    /\ UNCHANGED <<subscribers, bus_lock, bpc, bevent, callbacks, invoked, at_publish,
                   next_event, recent, recent_args>>

\* ---------------------------------------------------------- specifications

NextIteration(n) == IF n < IterCap THEN n + 1 ELSE IterCap

\* What a worker step shows of _run_bot's iteration counter (line 334) and of the
\* broker's market_open answers (line 353, and line 158 of run_strategy)
Observe(w) ==
    /\ iteration' = [iteration EXCEPT ![w] =
                        IF wpc[w] = "stopchk" /\ wpc'[w] = "health"
                        THEN NextIteration(@) ELSE @]
    /\ saw_open' = [saw_open EXCEPT ![w] =
                        \/ @
                        \/ wpc[w] = "market" /\ wpc'[w] = "run_lock"
                        \/ wpc[w] = "mkt2" /\ wpc'[w] = "order"]
    /\ UNCHANGED market_open_at_add
    /\ UNCHANGED aside

\* add_bot, line 255: the broker's answer when the bot is registered
ObserveAdd(c) ==
    /\ IF cpc[c] = "add_lock" /\ cpc'[c] = "add_write"
       THEN \E open \in BOOLEAN :
                market_open_at_add' = [market_open_at_add EXCEPT ![carg[c]] = open]
       ELSE UNCHANGED market_open_at_add
    /\ UNCHANGED <<iteration, saw_open>>
    /\ UNCHANGED aside

\* The fleet: add / pause / resume / stop on every bot, the workers' loops with
\* run_strategy as one step, a broker that answers every call
Next ==
    \/ \E w \in Workers : WorkerStart(w) /\ UNCHANGED <<observed, aside>>
    \/ \E w \in Workers : WorkerWriteState(w) /\ UNCHANGED <<observed, aside>>
    \/ \E w \in Workers : WorkerLoop(w) /\ UNCHANGED <<observed, aside>>
    \/ \E w \in Workers : WorkerGate(w) /\ UNCHANGED <<observed, aside>>
    \/ \E w \in Workers : WorkerStopCheck(w) /\ UNCHANGED <<observed, aside>>
    \/ \E w \in Workers : WorkerHealth(w, FALSE) /\ UNCHANGED <<observed, aside>>
    \/ \E w \in Workers : WorkerMarketGate(w) /\ UNCHANGED <<observed, aside>>
    \/ \E w \in Workers : WorkerWaitingMarket(w) /\ UNCHANGED <<observed, aside>>
    \/ \E w \in Workers : WorkerRestoreRunning(w) /\ UNCHANGED <<observed, aside>>
    \/ \E w \in Workers : WorkerExit(w) /\ UNCHANGED <<observed, aside>>
    \/ \E w \in Workers : RunStrategy(w, FALSE) /\ UNCHANGED <<observed, aside>>
    \/ \E c \in Callers : Call(c, Ops \ {"restart"}, Bots) /\ UNCHANGED <<observed, aside>>
    \/ \E c \in Callers : AddBot(c, {DefaultConfig}) /\ UNCHANGED <<observed, aside>>
    \/ \E c \in Callers : PauseBot(c) /\ UNCHANGED <<observed, aside>>
    \/ \E c \in Callers : ResumeBot(c) /\ UNCHANGED <<observed, aside>>
    \/ \E c \in Callers : EmitLocked(c) /\ UNCHANGED <<observed, aside>>
    \/ \E c \in Callers : CallerCheckGlobalPause(c) /\ UNCHANGED <<observed, aside>>
    \/ \E c \in Callers : CallerWriteState(c) /\ UNCHANGED <<observed, aside>>
    \/ \E c \in Callers : StopBot(c) /\ UNCHANGED <<observed, aside>>
    \/ \E c \in Callers : StopJoin(c) /\ UNCHANGED <<observed, aside>>
    \/ \E c \in Callers : StopMark(c) /\ UNCHANGED <<observed, aside>>
    \/ \E c \in Callers : Return(c) /\ UNCHANGED <<observed, aside>>

Spec == Init /\ [][Next]_vars

\* One bot with restart_bot: the previous worker thread and its successor
NextRestart ==
    \/ \E w \in Workers : WorkerStart(w) /\ UNCHANGED <<observed, aside>>
    \/ \E w \in Workers : WorkerWriteState(w) /\ UNCHANGED <<observed, aside>>
    \/ \E w \in Workers : WorkerLoop(w) /\ UNCHANGED <<observed, aside>>
    \/ \E w \in Workers : WorkerGate(w) /\ UNCHANGED <<observed, aside>>
    \/ \E w \in Workers : WorkerStopCheck(w) /\ UNCHANGED <<observed, aside>>
    \/ \E w \in Workers : WorkerHealth(w, FALSE) /\ UNCHANGED <<observed, aside>>
    \/ \E w \in Workers : WorkerMarketGate(w) /\ UNCHANGED <<observed, aside>>
    \/ \E w \in Workers : WorkerWaitingMarket(w) /\ UNCHANGED <<observed, aside>>
    \/ \E w \in Workers : WorkerRestoreRunning(w) /\ UNCHANGED <<observed, aside>>
    \/ \E w \in Workers : WorkerExit(w) /\ UNCHANGED <<observed, aside>>
    \/ \E w \in Workers : RunStrategy(w, FALSE) /\ UNCHANGED <<observed, aside>>
    \/ \E c \in Callers : Call(c, Ops, {1}) /\ UNCHANGED <<observed, aside>>
    \/ \E c \in Callers : AddBot(c, {DefaultConfig}) /\ UNCHANGED <<observed, aside>>
    \/ \E c \in Callers : PauseBot(c) /\ UNCHANGED <<observed, aside>>
    \/ \E c \in Callers : ResumeBot(c) /\ UNCHANGED <<observed, aside>>
    \/ \E c \in Callers : EmitLocked(c) /\ UNCHANGED <<observed, aside>>
    \/ \E c \in Callers : CallerCheckGlobalPause(c) /\ UNCHANGED <<observed, aside>>
    \/ \E c \in Callers : CallerWriteState(c) /\ UNCHANGED <<observed, aside>>
    \/ \E c \in Callers : StopBot(c) /\ UNCHANGED <<observed, aside>>
    \/ \E c \in Callers : StopJoin(c) /\ UNCHANGED <<observed, aside>>
    \/ \E c \in Callers : StopMark(c) /\ UNCHANGED <<observed, aside>>
    \/ \E c \in Callers : Return(c) /\ UNCHANGED <<observed, aside>>
    \/ \E c \in Callers : RestartBot(c) /\ UNCHANGED <<observed, aside>>
    \/ \E c \in Callers : RestartSwap(c) /\ UNCHANGED <<observed, aside>>
    \/ \E c \in Callers : RestartStart(c) /\ UNCHANGED <<observed, aside>>

SpecRestart == Init /\ [][NextRestart]_vars

\* One bot, the inside of run_strategy, a broker whose calls can fail
NextIter ==
    \/ \E w \in Workers : WorkerStart(w) /\ Observe(w)
    \/ \E w \in Workers : WorkerWriteState(w) /\ Observe(w)
    \/ \E w \in Workers : WorkerLoop(w) /\ Observe(w)
    \/ \E w \in Workers : WorkerGate(w) /\ Observe(w)
    \/ \E w \in Workers : WorkerStopCheck(w) /\ Observe(w)
    \/ \E w \in Workers : WorkerHealth(w, TRUE) /\ Observe(w)
    \/ \E w \in Workers : WorkerMarketGate(w) /\ Observe(w)
    \/ \E w \in Workers : WorkerWaitingMarket(w) /\ Observe(w)
    \/ \E w \in Workers : WorkerRestoreRunning(w) /\ Observe(w)
    \/ \E w \in Workers : WorkerExit(w) /\ Observe(w)
    \/ \E w \in Workers : StrategySignal(w, TRUE) /\ Observe(w)
    \/ \E w \in Workers : EventCheck(w) /\ Observe(w)
    \/ \E w \in Workers : EventPublish(w) /\ Observe(w)
    \/ \E w \in Workers : StrategyMarketCheck(w) /\ Observe(w)
    \/ \E w \in Workers : StrategyOrder(w, TRUE) /\ Observe(w)
    \/ \E c \in Callers : Call(c, Ops \ {"restart"}, {1}) /\ ObserveAdd(c)
    \/ \E c \in Callers : AddBot(c, {DefaultConfig}) /\ ObserveAdd(c)
    \/ \E c \in Callers : PauseBot(c) /\ ObserveAdd(c)
    \/ \E c \in Callers : ResumeBot(c) /\ ObserveAdd(c)
    \/ \E c \in Callers : EmitLocked(c) /\ ObserveAdd(c)
    \/ \E c \in Callers : CallerCheckGlobalPause(c) /\ ObserveAdd(c)
    \/ \E c \in Callers : CallerWriteState(c) /\ ObserveAdd(c)
    \/ \E c \in Callers : StopBot(c) /\ ObserveAdd(c)
    \/ \E c \in Callers : StopJoin(c) /\ ObserveAdd(c)
    \/ \E c \in Callers : StopMark(c) /\ ObserveAdd(c)
    \/ \E c \in Callers : Return(c) /\ ObserveAdd(c)

SpecIter == Init /\ [][NextIter]_vars

\* What the iteration of worker w has done, recorded as w takes a step
ObserveOrder(w) ==
    LET pc == wpc[w]
        fresh == pc = "stopchk" /\ wpc'[w] = "health" IN
    /\ generated' = [generated EXCEPT ![w] =
                        IF fresh THEN FALSE ELSE (@ \/ pc = "generate")]
    /\ signal_events' = [signal_events EXCEPT ![w] =
                        IF fresh THEN 0 ELSE IF pc = "sig_publish" THEN @ + 1 ELSE @]
    /\ opened_events' = [opened_events EXCEPT ![w] =
                        IF fresh THEN 0 ELSE IF pc = "open_publish" THEN @ + 1 ELSE @]
    /\ submitted' = [submitted EXCEPT ![w] =
                        IF fresh THEN 0 ELSE IF pc = "submit" THEN @ + 1 ELSE @]
    /\ attempted' = [attempted EXCEPT ![w] =
                        IF fresh THEN {}
                        ELSE IF pc = "closing" THEN @ \cup {Head(to_close[w])} ELSE @]
    /\ held' = [held EXCEPT ![w] =
                        IF fresh THEN {} ELSE IF pc = "order" THEN positions ELSE @]
    /\ outage' = [outage EXCEPT ![w] =
                        IF pc = "health" /\ consecutive_errors'[w] > consecutive_errors[w]
                        THEN @ + 1
                        ELSE IF pc = "market" THEN 0 ELSE @]

OrderFrame(w) == ObserveOrder(w) /\ UNCHANGED <<observed, cmdVars, allVars, connVars, lateVars, dataVars>>
LoopFrame(w) == OrderFrame(w) /\ UNCHANGED orderVars

\* One bot trading: every step of run_strategy, the broker's positions and the
\* trades table, with a broker and a store whose calls can fail
NextOrder ==
    \/ \E w \in Workers : WorkerStart(w) /\ LoopFrame(w)
    \/ \E w \in Workers : WorkerWriteState(w) /\ LoopFrame(w)
    \/ \E w \in Workers : WorkerLoop(w) /\ LoopFrame(w)
    \/ \E w \in Workers : WorkerGate(w) /\ LoopFrame(w)
    \/ \E w \in Workers : WorkerStopCheck(w) /\ LoopFrame(w)
    \/ \E w \in Workers : WorkerHealth(w, TRUE) /\ LoopFrame(w)
    \/ \E w \in Workers : WorkerMarketGate(w) /\ LoopFrame(w)
    \/ \E w \in Workers : WorkerWaitingMarket(w) /\ LoopFrame(w)
    \/ \E w \in Workers : WorkerRestoreRunning(w) /\ LoopFrame(w)
    \/ \E w \in Workers : WorkerExit(w) /\ LoopFrame(w)
    \/ \E w \in Workers : StrategyFetch(w, TRUE) /\ OrderFrame(w)
    \/ \E w \in Workers : StrategyGenerate(w) /\ OrderFrame(w)
    \/ \E w \in Workers : EventCheck(w) /\ LoopFrame(w)
    \/ \E w \in Workers : EventPublish(w) /\ LoopFrame(w)
    \/ \E w \in Workers : StrategyMarketCheck(w) /\ LoopFrame(w)
    \/ \E w \in Workers : PositionPolicy(w, TRUE) /\ OrderFrame(w)
    \/ \E w \in Workers : CloseQuery(w, TRUE) /\ OrderFrame(w)
    \/ \E w \in Workers : CloseOne(w, TRUE) /\ OrderFrame(w)
    \/ \E w \in Workers : StrategySize(w, TRUE) /\ OrderFrame(w)
    \/ \E w \in Workers : StrategySubmit(w) /\ OrderFrame(w)
    \/ \E w \in Workers : StrategyPersist(w, TRUE) /\ OrderFrame(w)
    \/ \E c \in Callers : Call(c, {"add"}, {1}) /\ UNCHANGED <<observed, aside>>
    \/ \E c \in Callers : AddBot(c, {DefaultConfig}) /\ UNCHANGED <<observed, aside>>
    \/ \E c \in Callers : CallerWriteState(c) /\ UNCHANGED <<observed, aside>>
    \/ \E c \in Callers : Return(c) /\ UNCHANGED <<observed, aside>>

\* The trading bot's strategy may have any position policy
InitTrading ==
    /\ InitFleet /\ InitOrder(Policies) /\ InitStore({EmptyStore}) /\ InitBus
    /\ InitBroker({PlainBroker})
    /\ InitStats

SpecOrder == InitTrading /\ [][NextOrder]_vars

ConnFrame == UNCHANGED <<observed, cmdVars, allVars, orderVars, orderObs, lateVars,
                          dataVars>>

\* Two bots sharing one broker session that can be lost: the health check and
\* the reconnect step by step, the broker calls of run_strategy one by one
NextReconnect ==
    \/ \E w \in Workers : WorkerStart(w) /\ UNCHANGED <<observed, aside>>
    \/ \E w \in Workers : WorkerWriteState(w) /\ UNCHANGED <<observed, aside>>
    \/ \E w \in Workers : WorkerLoop(w) /\ UNCHANGED <<observed, aside>>
    \/ \E w \in Workers : WorkerGate(w) /\ UNCHANGED <<observed, aside>>
    \/ \E w \in Workers : WorkerStopCheck(w) /\ UNCHANGED <<observed, aside>>
    \/ \E w \in Workers : HealthCheck(w) /\ ConnFrame
    \/ \E w \in Workers : ReconnectShutdown(w) /\ ConnFrame
    \/ \E w \in Workers : ReconnectInitialize(w) /\ ConnFrame
    \/ ConnectionLost /\ ConnFrame
    \/ \E w \in Workers : WorkerMarketGate(w) /\ UNCHANGED <<observed, aside>>
    \/ \E w \in Workers : WorkerWaitingMarket(w) /\ UNCHANGED <<observed, aside>>
    \/ \E w \in Workers : WorkerRestoreRunning(w) /\ UNCHANGED <<observed, aside>>
    \/ \E w \in Workers : WorkerExit(w) /\ UNCHANGED <<observed, aside>>
    \/ \E w \in Workers : StrategySignal(w, FALSE) /\ UNCHANGED <<observed, aside>>
    \/ \E w \in Workers : EventCheck(w) /\ UNCHANGED <<observed, aside>>
    \/ \E w \in Workers : EventPublish(w) /\ UNCHANGED <<observed, aside>>
    \/ \E w \in Workers : StrategyMarketCheck(w) /\ UNCHANGED <<observed, aside>>
    \/ \E w \in Workers : StrategyOrder(w, FALSE) /\ UNCHANGED <<observed, aside>>
    \/ \E c \in Callers : Call(c, {"add"}, NextToRegister) /\ UNCHANGED <<observed, aside>>
    \/ \E c \in Callers : AddBot(c, {DefaultConfig}) /\ UNCHANGED <<observed, aside>>
    \/ \E c \in Callers : CallerWriteState(c) /\ UNCHANGED <<observed, aside>>
    \/ \E c \in Callers : Return(c) /\ UNCHANGED <<observed, aside>>

SpecReconnect == Init /\ [][NextReconnect]_vars

\* The command file's steps leave the fleet alone
CmdFrame == UNCHANGED <<base, observed, allVars, orderVars, orderObs, connVars, lateVars,
                        dataVars>>

\* The command file alone: dashboard sessions sending, the processor polling
NextCmd ==
    \/ \E s \in Consumers : ConsumerStart(s) /\ CmdFrame
    \/ \E s \in Consumers : ConsumerExists(s) /\ CmdFrame
    \/ \E s \in Consumers : ConsumerLoad(s) /\ CmdFrame
    \/ \E s \in Consumers : ConsumerOpenW(s) /\ CmdFrame
    \/ \E s \in Consumers : ConsumerDump(s) /\ CmdFrame
    \/ ProcExists /\ CmdFrame
    \/ ProcLoad /\ CmdFrame
    \/ ProcRemove /\ CmdFrame
    \/ ProcRemoveBad /\ CmdFrame
    \/ ProcDispatch /\ CmdFrame

SpecCmd == Init /\ [][NextCmd]_vars

\* The fleet with bots of every magic number and strategy class: add_bot and
\* stop_bot (a stopped bot stays in the registry), the workers' loops
NextMagic ==
    \/ \E w \in Workers : WorkerStart(w) /\ UNCHANGED <<observed, aside>>
    \/ \E w \in Workers : WorkerWriteState(w) /\ UNCHANGED <<observed, aside>>
    \/ \E w \in Workers : WorkerLoop(w) /\ UNCHANGED <<observed, aside>>
    \/ \E w \in Workers : WorkerGate(w) /\ UNCHANGED <<observed, aside>>
    \/ \E w \in Workers : WorkerStopCheck(w) /\ UNCHANGED <<observed, aside>>
    \/ \E w \in Workers : WorkerHealth(w, FALSE) /\ UNCHANGED <<observed, aside>>
    \/ \E w \in Workers : WorkerMarketGate(w) /\ UNCHANGED <<observed, aside>>
    \/ \E w \in Workers : WorkerWaitingMarket(w) /\ UNCHANGED <<observed, aside>>
    \/ \E w \in Workers : WorkerRestoreRunning(w) /\ UNCHANGED <<observed, aside>>
    \/ \E w \in Workers : WorkerExit(w) /\ UNCHANGED <<observed, aside>>
    \/ \E w \in Workers : RunStrategy(w, FALSE) /\ UNCHANGED <<observed, aside>>
    \/ \E c \in Callers : Call(c, {"add", "stop"}, Bots) /\ UNCHANGED <<observed, aside>>
    \/ \E c \in Callers : AddBot(c, Configs) /\ UNCHANGED <<observed, aside>>
    \/ \E c \in Callers : CallerCheckGlobalPause(c) /\ UNCHANGED <<observed, aside>>
    \/ \E c \in Callers : CallerWriteState(c) /\ UNCHANGED <<observed, aside>>
    \/ \E c \in Callers : StopBot(c) /\ UNCHANGED <<observed, aside>>
    \/ \E c \in Callers : StopJoin(c) /\ UNCHANGED <<observed, aside>>
    \/ \E c \in Callers : StopMark(c) /\ UNCHANGED <<observed, aside>>
    \/ \E c \in Callers : Return(c) /\ UNCHANGED <<observed, aside>>

SpecMagic == Init /\ [][NextMagic]_vars

EveryBotRunning == \A b \in Bots : status[b] = "running"

\* What an observer sees of a pause_all: taken with every bot running
\* ("pausing"), processed ("paused"), then a resume_all taken ("resuming") and
\* processed ("resumed")
ObservePhase(c) ==
    phase' =
        CASE cpc[c] = "idle" /\ cpc'[c] = "list_bots" /\ all_op'[c] = "pause"
                /\ phase \in {"none", "resumed"} /\ EveryBotRunning -> "pausing"
          [] cpc[c] = "idle" /\ cpc'[c] = "list_bots" /\ all_op'[c] = "resume"
                /\ phase = "paused" -> "resuming"
          [] cpc[c] = "all_next" /\ cpc'[c] = "idle" /\ phase = "pausing" -> "paused"
          [] cpc[c] = "all_next" /\ cpc'[c] = "idle" /\ phase = "resuming" -> "resumed"
          [] OTHER -> phase

\* _write_state_file, lines 137-153: the statuses and the flag as of the call
WriteSnapshot == state_file' = <<status, global_paused>>

WorkerFrame == UNCHANGED <<observed, cmdVars, all_op, all_todo, phase, state_file,
                            orderVars, orderObs, connVars, lateVars, dataVars>>
CallerFrame(c) == ObservePhase(c) /\ UNCHANGED <<observed, cmdVars, state_file,
                                                 orderVars, orderObs, connVars, lateVars, dataVars>>

\* Two bots, the inside of run_strategy, and a command processor that registers
\* the bots and then runs pause_all and resume_all commands
NextAll ==
    \/ \E w \in Workers : WorkerStart(w) /\ WorkerFrame
    \/ \E w \in Workers : WorkerWriteState(w) /\ WriteSnapshot
                            /\ UNCHANGED <<observed, cmdVars, all_op, all_todo, phase,
                                           orderVars, orderObs, connVars, lateVars, dataVars>>
    \/ \E w \in Workers : WorkerLoop(w) /\ WorkerFrame
    \/ \E w \in Workers : WorkerGate(w) /\ WorkerFrame
    \/ \E w \in Workers : WorkerStopCheck(w) /\ WorkerFrame
    \/ \E w \in Workers : WorkerHealth(w, FALSE) /\ WorkerFrame
    \/ \E w \in Workers : WorkerMarketGate(w) /\ WorkerFrame
    \/ \E w \in Workers : WorkerWaitingMarket(w) /\ WorkerFrame
    \/ \E w \in Workers : WorkerRestoreRunning(w) /\ WorkerFrame
    \/ \E w \in Workers : StrategySignal(w, FALSE) /\ WorkerFrame
    \/ \E w \in Workers : EventCheck(w) /\ WorkerFrame
    \/ \E w \in Workers : EventPublish(w) /\ WorkerFrame
    \/ \E w \in Workers : StrategyMarketCheck(w) /\ WorkerFrame
    \/ \E w \in Workers : StrategyOrder(w, FALSE) /\ WorkerFrame
    \/ \E c \in Callers : Call(c, {"add"}, NextToRegister) /\ CallerFrame(c)
                            /\ UNCHANGED <<all_op, all_todo>>
    \/ \E c \in Callers : AddBot(c, {DefaultConfig}) /\ CallerFrame(c)
                            /\ UNCHANGED <<all_op, all_todo>>
    \/ \E c \in Callers : TakeAll(c, "pause") /\ CallerFrame(c)
    \/ \E c \in Callers : TakeAll(c, "resume") /\ CallerFrame(c)
    \/ \E c \in Callers : ListBots(c) /\ CallerFrame(c)
    \/ \E c \in Callers : AllNext(c) /\ CallerFrame(c)
    \/ \E c \in Callers : PauseBot(c) /\ CallerFrame(c) /\ UNCHANGED <<all_op, all_todo>>
    \/ \E c \in Callers : ResumeBot(c) /\ CallerFrame(c) /\ UNCHANGED <<all_op, all_todo>>
    \/ \E c \in Callers : EmitLocked(c) /\ CallerFrame(c) /\ UNCHANGED <<all_op, all_todo>>
    \/ \E c \in Callers : CallerCheckGlobalPause(c) /\ CallerFrame(c)
                            /\ UNCHANGED <<all_op, all_todo>>
    \/ \E c \in Callers : CallerWriteState(c) /\ WriteSnapshot /\ ObservePhase(c)
                            /\ UNCHANGED <<observed, cmdVars, all_op, all_todo,
                                           orderVars, orderObs, connVars, lateVars, dataVars>>
    \/ \E c \in Callers : ReturnToAll(c) /\ CallerFrame(c)

SpecAll == Init /\ [][NextAll]_vars

\* The trade store under a trading worker, the broker's stops, the background sync
\* loop and a manual sync_now
NextStore ==
    \/ \E typ \in {0, 1} : OrderFilled(typ) /\ StoreFrame
    \/ LogTradeOpened /\ StoreFrame
    \/ \E p \in PositionIds : \E com \in {<<"[", "s", "l">>, <<"[", "t", "p">>} :
          BrokerExit(p, com) /\ StoreFrame
    \/ \E p \in PositionIds : ClosePosition(p) /\ StoreFrame
    \/ LogClosedRead /\ StoreFrame
    \/ LogClosedWrite /\ StoreFrame
    \/ Tick /\ StoreFrame
    \/ \E s \in Syncers : SyncStart(s) /\ StoreFrame
    \/ \E s \in Syncers : SyncFetch(s) /\ StoreFrame
    \/ \E s \in Syncers : ProcessPosition(s) /\ StoreFrame
    \/ \E s \in Syncers : CreateTradeFromDeals(s) /\ StoreFrame
    \/ \E s \in Syncers : UpdateTradeFromExit(s) /\ StoreFrame
    \/ \E s \in Syncers : SyncDone(s) /\ StoreFrame

SpecStore == Init /\ [][NextStore]_vars

\* What the window of the broker's history (the last history_days days) and the store
\* hold for one position when a sync begins: no deal, the entry deal, entry and
\* exit deal, or the exit deal of a position opened before the window; no row, or
\* the row the worker logged (closed by signal only if the position is not open)
PositionCases ==
    { c \in [kind : {"absent", "open", "closed", "exit_only"}, type : {0, 1},
             exit_time : {1, 2}, comment : Comments,
             row : {"none", "opened", "closed"}] :
        /\ c.kind = "absent" => c.type = 0
        /\ c.kind \in {"absent", "open"} => c.exit_time = 1 /\ c.comment = <<>>
        /\ c.kind = "exit_only" => c.exit_time = 2
        /\ c.kind = "open" => c.row # "closed" }

MagicOfPosition(p) == ((p - 1) % NumMagics) + 1

RECURSIVE EntryDeals(_, _)
EntryDeals(h, n) ==
    IF n = 0 THEN <<>>
    ELSE EntryDeals(h, n - 1) \o
         (IF h[n].kind \in {"open", "closed"}
          THEN <<Deal(n, n, h[n].type, 1, MagicOfPosition(n), <<>>)>> ELSE <<>>)

RECURSIVE ExitDeals(_, _, _)
ExitDeals(h, n, tm) ==
    IF n = 0 THEN <<>>
    ELSE ExitDeals(h, n - 1, tm) \o
         (IF h[n].kind \in {"closed", "exit_only"} /\ h[n].exit_time = tm
          THEN <<Deal(n, ExitOrder(n), 1 - h[n].type, tm, MagicOfPosition(n),
                      h[n].comment)>>
          ELSE <<>>)

\* The history in time order; a balance deal (type 2) has position_id 0
HistoryOf(h, balance) ==
    (IF balance THEN <<Deal(0, 0, 2, 1, 0, <<>>)>> ELSE <<>>)
    \o EntryDeals(h, NumPositions) \o ExitDeals(h, NumPositions, 1)
    \o ExitDeals(h, NumPositions, 2)

RECURSIVE LoggedRows(_, _)
LoggedRows(h, n) ==
    IF n = 0 THEN <<>>
    ELSE LET tbl == LoggedRows(h, n - 1)
             opened == OpenedTrade(n, MagicOfPosition(n),
                                   BotId(Symbol, MagicOfPosition(n)),
                                   ActionOf(h[n].type), PriceAt(1), Null, 1)
         IN CASE h[n].row = "none" -> tbl
              [] h[n].row = "opened" -> save_trade(tbl, opened)
              [] OTHER -> save_trade(tbl, ClosedTrade(opened, PriceAt(2), 0, 2, "signal"))

SyncStarts ==
    { <<LoggedRows(h, NumPositions), HistoryOf(h, balance), MaxTime>> :
        h \in [PositionIds -> PositionCases], balance \in BOOLEAN }

InitSync ==
    /\ InitFleet /\ InitOrder({DefaultPolicy}) /\ InitStore(SyncStarts) /\ InitBus
    /\ InitBroker({PlainBroker})
    /\ InitStats

\* sync_now called again and again, nobody else writing
NextSync ==
    \/ SyncStart("manual") /\ StoreFrame
    \/ SyncFetch("manual") /\ StoreFrame
    \/ ProcessPosition("manual") /\ StoreFrame
    \/ CreateTradeFromDeals("manual") /\ StoreFrame
    \/ UpdateTradeFromExit("manual") /\ StoreFrame
    \/ SyncDone("manual") /\ StoreFrame

SpecSync == InitSync /\ [][NextSync]_vars

\* The event bus under publishers and subscribers coming and going
NextBus ==
    \/ \E t \in EventTypes : \E cb \in Callbacks : Subscribe(t, cb) /\ BusFrame
    \/ \E t \in EventTypes : \E cb \in Callbacks : Unsubscribe(t, cb) /\ BusFrame
    \/ \E p \in Publishers : \E t \in EventTypes : PublishAcquire(p, t) /\ BusFrame
    \/ \E p \in Publishers : PublishRecord(p) /\ BusFrame
    \/ \E p \in Publishers : DeliverOne(p) /\ BusFrame
    \/ \E p \in Publishers : PublishReturn(p) /\ BusFrame

SpecBus == Init /\ [][NextBus]_vars

\* The history of the bus under publishers, queries and clear_history, nobody subscribed
NextHistory ==
    \/ \E p \in Publishers : \E t \in EventTypes : PublishAcquire(p, t) /\ BusFrame
    \/ \E p \in Publishers : PublishRecord(p) /\ BusFrame
    \/ \E p \in Publishers : PublishReturn(p) /\ BusFrame
    \/ \E t \in EventTypes \cup {"None"} : \E limit \in 0..MaxLimit :
          get_recent_events(t, limit) /\ BusFrame
    \/ clear_history /\ BusFrame

SpecHistory == Init /\ [][NextHistory]_vars

\* ------------------------------------------------ the state-snapshot file

\* stop_all_bots, lines 556-557: bot_ids = list(self.active_bots.keys())
StopAllList(c) ==
    /\ cpc[c] = "stop_all_lock"
    /\ lock = LockFree
    /\ all_todo' = [all_todo EXCEPT ![c] = Ascending({b \in Bots : Registered(b)})]
    /\ cpc' = [cpc EXCEPT ![c] = "stop_all_signal"]
    /\ UNCHANGED <<status, gen, lock, global_paused, config, cop, carg, cthread>>
    /\ UNCHANGED workerVars

\* The worker positions after stop_event.set() and pause_event.set() on every bot of ids
SignalAll(pcs, ids) ==
    [w \in Workers |->
        IF BotOf(w) \in ids /\ w = Current(BotOf(w)) /\ pcs[w] = "gate_wait"
        THEN "stopchk" ELSE pcs[w]]

\* stop_all_bots, lines 562-566: one `with self.lock:` block signals every bot
StopAllSignal(c) ==
    LET ids == {all_todo[c][i] : i \in DOMAIN all_todo[c]} IN
    /\ cpc[c] = "stop_all_signal"
    /\ lock = LockFree
    /\ stop_event' = [w \in Workers |->
                        IF BotOf(w) \in ids /\ w = Current(BotOf(w))
                        THEN TRUE ELSE stop_event[w]]
    /\ pause_event' = [w \in Workers |->
                        IF BotOf(w) \in ids /\ w = Current(BotOf(w))
                        THEN TRUE ELSE pause_event[w]]
    /\ wpc' = SignalAll(wpc, ids)
    /\ cpc' = [cpc EXCEPT ![c] = "stop_all_join"]
    /\ UNCHANGED <<status, gen, consecutive_errors, lock, global_paused, config,
                   cop, carg, cthread, all_todo>>

\* stop_all_bots, lines 569-573: each thread is joined for at most 5 s, then the
\* operation returns; it writes neither a status nor the state file
StopAllJoin(c) ==
    /\ cpc[c] = "stop_all_join"
    /\ all_todo' = [all_todo EXCEPT ![c] = <<>>]
    /\ cpc' = [cpc EXCEPT ![c] = "idle"]
    /\ UNCHANGED <<status, gen, lock, global_paused, config, cop, carg, cthread>>
    /\ UNCHANGED workerVars

SnapFrame == UNCHANGED <<observed, cmdVars, allVars, orderVars, orderObs, connVars,
                          symVars, statVars, dataVars>>

\* A step of worker w outside _write_state_file
WorkerSteps(w) == wsnap[w] = NoSnapshot /\ UNCHANGED <<observed, aside>>

\* A step of caller c outside _write_state_file
CallerSteps(c) == csnap[c] = NoSnapshot /\ UNCHANGED <<observed, aside>>

\* _write_state_file, lines 136-147, called by worker w: `state` is built from the
\* flag and the registry inside `with self.lock:`
WorkerBuildState(w) ==
    /\ wsnap[w] = NoSnapshot
    /\ WorkerWriteState(w)
    /\ wsnap' = [wsnap EXCEPT ![w] = <<status, global_paused>>]
    /\ UNCHANGED csnap
    /\ SnapFrame

\* _write_state_file, lines 148-149: the file is opened and `state` dumped after
\* the mutex was released
WorkerDumpState(w) ==
    /\ wsnap[w] # NoSnapshot
    /\ state_file' = wsnap[w]
    /\ wsnap' = [wsnap EXCEPT ![w] = NoSnapshot]
    /\ UNCHANGED <<base, observed, cmdVars, all_op, all_todo, phase, orderVars,
                   orderObs, connVars, csnap, symVars, statVars, dataVars>>

\* lines 136-147 called by a controller operation
CallerBuildState(c) ==
    /\ csnap[c] = NoSnapshot
    /\ CallerWriteState(c)
    /\ csnap' = [csnap EXCEPT ![c] = <<status, global_paused>>]
    /\ UNCHANGED wsnap
    /\ SnapFrame

\* lines 148-149 called by a controller operation
CallerDumpState(c) ==
    /\ csnap[c] # NoSnapshot
    /\ state_file' = csnap[c]
    /\ csnap' = [csnap EXCEPT ![c] = NoSnapshot]
    /\ UNCHANGED <<base, observed, cmdVars, all_op, all_todo, phase, orderVars,
                   orderObs, connVars, wsnap, symVars, statVars, dataVars>>

StopAllFrame == UNCHANGED <<observed, cmdVars, all_op, phase, state_file, orderVars,
                             orderObs, connVars, lateVars, dataVars>>

\* One bot under every controller operation, with _write_state_file in its two
\* parts: the state built under the mutex, the file written after it
NextSnapshot ==
    \/ \E w \in Workers : WorkerStart(w) /\ WorkerSteps(w)
    \/ \E w \in Workers : WorkerBuildState(w)
    \/ \E w \in Workers : WorkerDumpState(w)
    \/ \E w \in Workers : WorkerLoop(w) /\ WorkerSteps(w)
    \/ \E w \in Workers : WorkerGate(w) /\ WorkerSteps(w)
    \/ \E w \in Workers : WorkerStopCheck(w) /\ WorkerSteps(w)
    \/ \E w \in Workers : WorkerHealth(w, FALSE) /\ WorkerSteps(w)
    \/ \E w \in Workers : WorkerMarketGate(w) /\ WorkerSteps(w)
    \/ \E w \in Workers : WorkerWaitingMarket(w) /\ WorkerSteps(w)
    \/ \E w \in Workers : WorkerRestoreRunning(w) /\ WorkerSteps(w)
    \/ \E w \in Workers : WorkerExit(w) /\ WorkerSteps(w)
    \/ \E w \in Workers : RunStrategy(w, FALSE) /\ WorkerSteps(w)
    \/ \E c \in Callers : Call(c, Ops \cup {"stop_all"}, {1}) /\ CallerSteps(c)
    \/ \E c \in Callers : AddBot(c, {DefaultConfig}) /\ CallerSteps(c)
    \/ \E c \in Callers : PauseBot(c) /\ CallerSteps(c)
    \/ \E c \in Callers : ResumeBot(c) /\ CallerSteps(c)
    \/ \E c \in Callers : EmitLocked(c) /\ CallerSteps(c)
    \/ \E c \in Callers : CallerCheckGlobalPause(c) /\ CallerSteps(c)
    \/ \E c \in Callers : CallerBuildState(c)
    \/ \E c \in Callers : CallerDumpState(c)
    \/ \E c \in Callers : StopBot(c) /\ CallerSteps(c)
    \/ \E c \in Callers : StopJoin(c) /\ CallerSteps(c)
    \/ \E c \in Callers : StopMark(c) /\ CallerSteps(c)
    \/ \E c \in Callers : Return(c) /\ CallerSteps(c)
    \/ \E c \in Callers : RestartBot(c) /\ CallerSteps(c)
    \/ \E c \in Callers : RestartSwap(c) /\ CallerSteps(c)
    \/ \E c \in Callers : RestartStart(c) /\ CallerSteps(c)
    \/ \E c \in Callers : StopAllList(c) /\ StopAllFrame
    \/ \E c \in Callers : StopAllSignal(c) /\ StopAllFrame /\ UNCHANGED all_todo
    \/ \E c \in Callers : StopAllJoin(c) /\ StopAllFrame

SpecSnapshot == Init /\ [][NextSnapshot]_vars

\* The lists mt5.symbols_get() may return: up to MaxListed different names, in any order
Listings ==
    {l \in UNION {[1..k -> BrokerNames] : k \in 0..MaxListed} :
        \A i, j \in DOMAIN l : l[i] = l[j] => i = j}

Envelopes == {<<>>, <<"#">>} \X {<<>>, <<".", "e", "c", "n">>}

Brokers ==
    {[prefix |-> e[1], suffix |-> e[2], symbols |-> l, order |-> o] :
        e \in Envelopes, l \in Listings, o \in HashOrders}

\* The symbols strategies ask for
Requests == {EURUSD, lower(EURUSD)}

SymFrame == UNCHANGED <<base, observed, cmdVars, allVars, orderVars, orderObs, connVars,
                        snapVars, statVars, dataVars>>

\* Symbol resolution alone, against every terminal and envelope
NextSymbol ==
    \/ \E symbol \in Requests : FindSymbolInfo(symbol) /\ SymFrame

InitSymbol ==
    /\ InitFleet /\ InitOrder({DefaultPolicy}) /\ InitStore({EmptyStore}) /\ InitBus
    /\ InitBroker(Brokers)
    /\ InitStats

SpecSymbol == InitSymbol /\ [][NextSymbol]_vars

\* A terminal that lists the symbol as EURUSD.ecn, with the suffix configured
EcnBroker == [prefix |-> <<>>, suffix |-> <<".", "e", "c", "n">>,
              symbols |-> <<EURUSD \o <<".", "e", "c", "n">>>>, order |-> <<1, 2, 3>>]

\* One bot trading against a broker that answers every call, under the plain
\* name or under an envelope name
NextEnvelope ==
    \/ \E w \in Workers : WorkerStart(w) /\ LoopFrame(w)
    \/ \E w \in Workers : WorkerWriteState(w) /\ LoopFrame(w)
    \/ \E w \in Workers : WorkerLoop(w) /\ LoopFrame(w)
    \/ \E w \in Workers : WorkerGate(w) /\ LoopFrame(w)
    \/ \E w \in Workers : WorkerStopCheck(w) /\ LoopFrame(w)
    \/ \E w \in Workers : WorkerHealth(w, FALSE) /\ LoopFrame(w)
    \/ \E w \in Workers : WorkerMarketGate(w) /\ LoopFrame(w)
    \/ \E w \in Workers : WorkerWaitingMarket(w) /\ LoopFrame(w)
    \/ \E w \in Workers : WorkerRestoreRunning(w) /\ LoopFrame(w)
    \/ \E w \in Workers : StrategyFetch(w, FALSE) /\ OrderFrame(w)
    \/ \E w \in Workers : StrategyGenerate(w) /\ OrderFrame(w)
    \/ \E w \in Workers : EventCheck(w) /\ LoopFrame(w)
    \/ \E w \in Workers : EventPublish(w) /\ LoopFrame(w)
    \/ \E w \in Workers : StrategyMarketCheck(w) /\ LoopFrame(w)
    \/ \E w \in Workers : PositionPolicy(w, FALSE) /\ OrderFrame(w)
    \/ \E w \in Workers : CloseQuery(w, FALSE) /\ OrderFrame(w)
    \/ \E w \in Workers : CloseOne(w, FALSE) /\ OrderFrame(w)
    \/ \E w \in Workers : StrategySize(w, FALSE) /\ OrderFrame(w)
    \/ \E w \in Workers : StrategySubmit(w) /\ OrderFrame(w)
    \/ \E w \in Workers : StrategyPersist(w, FALSE) /\ OrderFrame(w)
    \/ \E c \in Callers : Call(c, {"add"}, {1}) /\ UNCHANGED <<observed, aside>>
    \/ \E c \in Callers : AddBot(c, {DefaultConfig}) /\ UNCHANGED <<observed, aside>>
    \/ \E c \in Callers : CallerWriteState(c) /\ UNCHANGED <<observed, aside>>
    \/ \E c \in Callers : Return(c) /\ UNCHANGED <<observed, aside>>

InitEnvelope ==
    /\ InitFleet /\ InitOrder(Policies) /\ InitStore({EmptyStore}) /\ InitBus
    /\ InitBroker({PlainBroker, EcnBroker})
    /\ InitStats

SpecEnvelope == InitEnvelope /\ [][NextEnvelope]_vars

\* The position policies that allow several positions
OpenPolicies == {FALSE} \X (1..MaxPositions)

\* Two bots of one strategy class on one symbol (two timeframes): they share the
\* strategy's magic number, the broker session and the position policy; the
\* broker answers every call
NextShared ==
    \/ \E w \in Workers : WorkerStart(w) /\ LoopFrame(w)
    \/ \E w \in Workers : WorkerWriteState(w) /\ LoopFrame(w)
    \/ \E w \in Workers : WorkerLoop(w) /\ LoopFrame(w)
    \/ \E w \in Workers : WorkerGate(w) /\ LoopFrame(w)
    \/ \E w \in Workers : WorkerStopCheck(w) /\ LoopFrame(w)
    \/ \E w \in Workers : WorkerHealth(w, FALSE) /\ LoopFrame(w)
    \/ \E w \in Workers : WorkerMarketGate(w) /\ LoopFrame(w)
    \/ \E w \in Workers : WorkerWaitingMarket(w) /\ LoopFrame(w)
    \/ \E w \in Workers : WorkerRestoreRunning(w) /\ LoopFrame(w)
    \/ \E w \in Workers : StrategyFetch(w, FALSE) /\ OrderFrame(w)
    \/ \E w \in Workers : StrategyGenerate(w) /\ OrderFrame(w)
    \/ \E w \in Workers : EventCheck(w) /\ LoopFrame(w)
    \/ \E w \in Workers : EventPublish(w) /\ LoopFrame(w)
    \/ \E w \in Workers : StrategyMarketCheck(w) /\ LoopFrame(w)
    \/ \E w \in Workers : PositionPolicy(w, FALSE) /\ OrderFrame(w)
    \/ \E w \in Workers : StrategySize(w, FALSE) /\ OrderFrame(w)
    \/ \E w \in Workers : StrategySubmit(w) /\ OrderFrame(w)
    \/ \E w \in Workers : StrategyPersist(w, FALSE) /\ OrderFrame(w)
    \/ \E c \in Callers : Call(c, {"add"}, NextToRegister) /\ UNCHANGED <<observed, aside>>
    \/ \E c \in Callers : AddBot(c, {DefaultConfig}) /\ UNCHANGED <<observed, aside>>
    \/ \E c \in Callers : CallerWriteState(c) /\ UNCHANGED <<observed, aside>>
    \/ \E c \in Callers : Return(c) /\ UNCHANGED <<observed, aside>>

InitShared ==
    /\ InitFleet /\ InitOrder(OpenPolicies) /\ InitStore({EmptyStore}) /\ InitBus
    /\ InitBroker({PlainBroker})
    /\ InitStats

SpecShared == InitShared /\ [][NextShared]_vars

\* ------------------------------------------------------------------ bot statistics

\* The profits a closed trade can book, in account currency units
Profits == (0 - MaxProfit)..MaxProfit

\* SQL COUNT(*) ... WHERE over the rows of the table
CountRows(rows, Where(_)) == Cardinality({i \in 1..Len(rows) : Where(rows[i])})

\* SQL COALESCE(SUM(profit), 0) over the selected rows; NULL profits are skipped
RECURSIVE SumProfit(_)
SumProfit(rows) ==
    IF rows = <<>> THEN 0
    ELSE (IF Head(rows).profit # <<>> THEN Head(rows).profit[1] ELSE 0)
         + SumProfit(Tail(rows))

\* TradeRepository.get_bot_stats, trade_repository.py lines 369-429. A comparison with
\* a NULL profit is not true in SQL. win_rate and avg_profit, ratios rounded to two
\* decimals, are left out of the dictionary
get_bot_stats(rows, bot_id) ==
    LET OfBot(r) == r.bot_id = bot_id
        Won(r) == OfBot(r) /\ r.status = "closed" /\ r.profit # <<>> /\ r.profit[1] > 0
        Lost(r) == OfBot(r) /\ r.status = "closed" /\ r.profit # <<>> /\ r.profit[1] < 0
        Closed(r) == OfBot(r) /\ r.status = "closed"
        total == CountRows(rows, OfBot)
        wins == CountRows(rows, Won)
        losses == CountRows(rows, Lost)
        total_profit == SumProfit(SelectSeq(rows, Closed))
        closed_trades == wins + losses
    IN [bot_id |-> bot_id, total_trades |-> total, closed_trades |-> closed_trades,
        open_trades |-> total - closed_trades, wins |-> wins, losses |-> losses,
        total_profit |-> total_profit]

\* TradeLogger.log_trade_opened, trade_logger.py lines 73-93: a Trade with status
\* OPENED and no profit, inserted by save_trade
StatsTradeOpened(b) ==
    /\ Len(trade_rows) < MaxTrades
    /\ trade_rows' = Append(trade_rows, [bot_id |-> b, status |-> "opened", profit |-> <<>>])
    /\ UNCHANGED <<stats, stats_rows>>

\* TradeLogger.log_trade_closed, trade_logger.py lines 118-144: the open trade gets
\* its profit and status CLOSED, written by update_trade
StatsTradeClosed(i, profit) ==
    /\ i \in 1..Len(trade_rows)
    /\ trade_rows[i].status = "opened"
    /\ trade_rows' = [trade_rows EXCEPT ![i].status = "closed", ![i].profit = <<profit>>]
    /\ UNCHANGED <<stats, stats_rows>>

\* AppDirector.get_bot_stats -> TradeLogger.get_bot_stats -> the repository's
GetBotStats(b) ==
    /\ stats' = get_bot_stats(trade_rows, b)
    /\ stats_rows' = trade_rows
    /\ UNCHANGED trade_rows

StatsFrame == UNCHANGED <<base, observed, cmdVars, allVars, orderVars, orderObs,
                          connVars, snapVars, symVars, dataVars>>

NextStats ==
    \/ \E b \in Bots : StatsTradeOpened(b) /\ StatsFrame
    \/ \E i \in 1..MaxTrades : \E profit \in Profits : StatsTradeClosed(i, profit) /\ StatsFrame
    \/ \E b \in Bots : GetBotStats(b) /\ StatsFrame

SpecStats == Init /\ [][NextStats]_vars

\* ------------------------------------------------------------------ claims

\* The positions of the controller operations at which _write_state_file is called
CallerWriteSites == {"add_write", "pause_write", "resume_write", "stop_write"}

\* The positions at which a controller operation waits for the registry mutex
CallerLockSites == {"add_lock", "pause_lock", "resume_lock", "stop_lock", "stop_mark",
                    "pause_check", "resume_check", "stop_check"} \cup CallerWriteSites

\* A worker that called _write_state_file while holding the registry mutex: it
\* waits for a mutex that only it can release
Stuck(w) == wpc[w] \in WorkerWriteSites /\ lock = HeldByWorker(w)

\* C1: every call of _write_state_file is made by a thread that does not hold the
\* registry mutex -- the callers add_bot, pause_bot, resume_bot, stop_bot and
\* every status transition made inside a worker loop.
C1_WriteOutsideMutex ==
    /\ \A w \in Workers : wpc[w] \in WorkerWriteSites => lock # HeldByWorker(w)
    /\ \A c \in Callers : cpc[c] \in CallerWriteSites => lock # HeldByCaller(c)

\* C2: a worker that entered waiting_market keeps retrying (it is not blocked for
\* good), and the controller operations on the fleet stay able to complete: no
\* operation waits for the registry mutex while its holder can never release it.
C2_WaitingMarketRetries ==
    /\ \A b \in Bots : status[b] = "waiting_market" => ~Stuck(Current(b))
    /\ \A c \in Callers : cpc[c] \in CallerLockSites /\ cop[c] \in {"add", "pause"}
            => \A w \in Workers : ~Stuck(w)

\* The positions inside director.run_strategy; at "order" the order is submitted
StrategySites == {"strategy", "sig_check", "sig_publish", "mkt2", "order",
                  "open_check", "open_publish"}

\* C3 (as claimed): a bot added while market_open is false enters waiting_market on
\* its first iteration: once its worker is past the first iteration without any
\* market_open check having returned true, the bot has left 'running' for
\* waiting_market (or was paused / stopped by the controller).
C3_FirstIterationWaits ==
    \A b \in Bots :
        (/\ Registered(b)
         /\ ~market_open_at_add[b]
         /\ ~saw_open[<<b, 0>>]
         /\ iteration[<<b, 0>>] >= 2)
        => status[b] \in {"waiting_market", "paused", "stopped"}

\* C3 (amended): an iteration whose market-open gate finds the market closed sets
\* the bot to waiting_market and does not run the strategy, and a worker is inside
\* run_strategy (where orders are submitted) only after a market_open check of its
\* own has returned true.
C3_ClosedGateWaits ==
    \A w \in Workers :
        /\ wpc[w] = "wm_write" => status[BotOf(w)] = "waiting_market"
        /\ wpc[w] \in {"wm_lock", "wm_write"} /\ iteration[w] = 1 => ~saw_open[w]
        /\ wpc[w] \in StrategySites => saw_open[w]

\* C3 witness: the worker of a bot added while the market was closed found the
\* market closed in its first iteration and has set the bot to waiting_market
C3_Witness ==
    \E b \in Bots :
        /\ ~market_open_at_add[b]
        /\ iteration[<<b, 0>>] = 1
        /\ wpc[<<b, 0>>] = "wm_write"
        /\ status[b] = "waiting_market"
        /\ ~saw_open[<<b, 0>>]

\* C4: after every completed status transition the global-pause flag is true
\* exactly when at least one worker exists and every non-stopped worker is paused
\* (checked whenever no controller operation is in progress).
C4_GlobalPauseTracksRegistry ==
    (\A c \in Callers : cpc[c] = "idle") => (global_paused = AllPaused(status))

\* C5: no subscriber callback is invoked for signal_generated / trade_opened while
\* the global-pause flag is true: the step in which event_bus.publish runs the
\* callbacks is taken only in states where the flag is false.
C5_NoDeliveryWhilePaused ==
    [][\A w \in Workers :
          wpc[w] \in {"sig_publish", "open_publish"} /\ wpc'[w] # wpc[w]
          => ~global_paused]_vars

\* The edges of the bot state machine (with registration, none -> starting)
StatusEdges ==
    {<<"none", "starting">>, <<"starting", "running">>,
     <<"running", "paused">>, <<"paused", "running">>,
     <<"running", "waiting_market">>, <<"waiting_market", "running">>,
     <<"starting", "stopped">>, <<"running", "stopped">>,
     <<"waiting_market", "stopped">>, <<"paused", "stopped">>,
     <<"stopped", "starting">>}

\* C6: every change of a bot's registry status follows an edge of the state
\* machine, under every interleaving of controller operations and worker writes.
C6_StatusFollowsEdges ==
    [][\A b \in Bots :
          status'[b] # status[b] => <<status[b], status'[b]>> \in StatusEdges]_vars

\* C7: pause_bot and resume_bot (also as the commands pause, resume, pause_all,
\* resume_all) never move a stopped bot to paused or running.
C7_StoppedStaysStopped ==
    [][\A c \in Callers :
          (/\ cpc[c] \in {"pause_lock", "resume_lock"}
           /\ cpc'[c] # cpc[c]
           /\ status[carg[c]] = "stopped")
          => status'[carg[c]] = "stopped"]_vars

\* C8: after restart_bot the status of the bot is not set to stopped by the
\* previous worker instance.
C8_OldWorkerLeavesStatus ==
    [][\A w \in Workers :
          (/\ GenOf(w) < gen[BotOf(w)]
           /\ wpc'[w] # wpc[w]
           /\ status[BotOf(w)] # "stopped")
          => status'[BotOf(w)] # "stopped"]_vars

\* C9: stop_bot(x) on a bot in waiting_market gets through: while it waits for the
\* registry mutex to signal the stop, the mutex is not held by x's own worker
\* blocked inside _write_state_file.
C9_StopBotGetsThrough ==
    \A c \in Callers :
        cpc[c] = "stop_lock" /\ status[carg[c]] = "waiting_market"
        => ~Stuck(Current(carg[c]))

\* C10: on a registered, non-stopped bot the first pause_bot sets paused and clears
\* the pause signal, and a pause_bot that finds the bot paused returns without
\* changing registry, signals or the global-pause flag; the first resume_bot on a
\* paused bot sets running and sets the pause signal, and a resume_bot that finds
\* the bot not paused returns without changing anything.
C10_PauseResumeIdempotent ==
    [][\A c \in Callers :
          LET b == carg[c] IN
          /\ (/\ cpc[c] = "pause_lock" /\ cpc'[c] # cpc[c]
              /\ Registered(b) /\ status[b] # "stopped")
             => IF status[b] = "paused"
                THEN /\ cpc'[c] = "pause_ret_already"
                     /\ UNCHANGED <<status, gen, stop_event, pause_event, global_paused>>
                ELSE /\ status'[b] = "paused"
                     /\ ~pause_event'[Current(b)]
          /\ (/\ cpc[c] = "resume_lock" /\ cpc'[c] # cpc[c]
              /\ Registered(b) /\ status[b] # "stopped")
             => IF status[b] = "paused"
                THEN /\ status'[b] = "running"
                     /\ pause_event'[Current(b)]
                ELSE /\ cpc'[c] = "resume_ret_notpaused"
                     /\ UNCHANGED <<status, gen, stop_event, pause_event, global_paused>>
          /\ cpc[c] \in {"pause_ret_already", "resume_ret_notpaused"}
             /\ cpc'[c] # cpc[c]
             => UNCHANGED <<status, gen, stop_event, pause_event, global_paused>>]_vars

\* C10 witness: a second pause_bot found the bot paused and returned, the worker
\* still held at the pause gate
C10_Witness ==
    \E c \in Callers :
        /\ cpc[c] = "pause_ret_already"
        /\ status[carg[c]] = "paused"
        /\ ~pause_event[Current(carg[c])]
        /\ wpc[Current(carg[c])] = "gate_wait"

\* No send and no take of the command file is in progress and the file is gone
CmdQuiescent ==
    /\ file_state = "absent"
    /\ ppc = "wait"
    /\ \A s \in Consumers : spc[s] = "idle"

\* C11: every command a consumer has written is dispatched exactly once: none is
\* dispatched twice, and once the file has been taken and processed with no send
\* in progress, every written command has been dispatched.
C11_DispatchedExactlyOnce ==
    /\ \A i \in CmdIds : dispatched[i] <= 1
    /\ CmdQuiescent => \A i \in written : dispatched[i] = 1

\* C13: at every instant any two registered bots with the same magic number are of
\* the same strategy class, and an add_bot whose magic number is owned by a
\* registered bot of another strategy class returns false, registers nothing and
\* starts no thread.
C13_MagicOwnedByOneClass ==
    /\ [](\A a \in Bots, b \in Bots :
             (/\ Registered(a) /\ Registered(b)
              /\ magic_number(config[a]) = magic_number(config[b]))
             => strategy_class(config[a]) = strategy_class(config[b]))
    /\ [][\A c \in Callers :
             cpc[c] = "add_lock" /\ cpc'[c] = "add_ret_magic"
             => UNCHANGED <<status, config, gen, wpc, stop_event, pause_event,
                            global_paused>>]_vars

\* C13 witness: an add_bot was rejected for its magic number: the bot it named is
\* not registered and has no thread, next to the registered owner of the number
C13_Witness ==
    \E c \in Callers :
        /\ cpc[c] = "add_ret_magic"
        /\ ~Registered(carg[c])
        /\ wpc[<<carg[c], 0>>] = "unborn"
        /\ \E e \in Bots : Registered(e)

\* C12: when a pause_all taken while every bot is running has been processed,
\* every bot is paused, the global-pause flag is true and the state snapshot shows
\* every bot paused; no signal_generated event reaches a subscriber from then
\* until a resume_all has been processed, after which every bot is running and
\* the flag is false.
C12_PauseAllSilences ==
    [][/\ phase = "pausing" /\ phase' = "paused"
          => /\ \A b \in Bots : status'[b] = "paused"
             /\ global_paused'
             /\ state_file' = <<[b \in Bots |-> "paused"], TRUE>>
       /\ phase \in {"paused", "resuming"}
          => \A w \in Workers : ~(wpc[w] = "sig_publish" /\ wpc'[w] # wpc[w])
       /\ phase = "resuming" /\ phase' = "resumed"
          => /\ \A b \in Bots : status'[b] = "running"
             /\ ~global_paused']_vars

\* The return statements that report a rejected operation
RejectSites == {"add_ret_exists", "pause_ret_noexist", "resume_ret_noexist",
                "stop_ret_noexist", "restart_ret_noexist"}

\* C14: a rejected controller operation returns false without raising and without
\* side effects: add_bot for a bot id in the registry (whatever its status), and
\* pause_bot, resume_bot, stop_bot, restart_bot for a bot id not in the registry,
\* leave registry, stop and pause signals, worker threads and the global-pause
\* flag unchanged.
C14_RejectedOperationsChangeNothing ==
    [][\A c \in Callers :
          /\ (/\ cpc[c] = "add_lock" /\ cpc'[c] # cpc[c]
              /\ Registered(carg[c]))
             => /\ cpc'[c] = "add_ret_exists"
                /\ UNCHANGED <<status, config, gen, stop_event, pause_event, wpc,
                               global_paused, lock>>
          /\ (/\ cpc[c] \in {"pause_lock", "resume_lock", "stop_lock", "restart_lock"}
              /\ cpc'[c] # cpc[c]
              /\ ~Registered(carg[c]))
             => /\ cpc'[c] = cop[c] \o "_ret_noexist"
                /\ UNCHANGED <<status, config, gen, stop_event, pause_event, wpc,
                               global_paused, lock>>
          /\ (cpc[c] \in RejectSites /\ cpc'[c] # cpc[c])
             => /\ cpc'[c] = "idle"
                /\ UNCHANGED <<status, config, gen, stop_event, pause_event, wpc,
                               global_paused, lock>>]_vars

\* C14 witness: add_bot was rejected for the id of a stopped bot
C14_Witness ==
    \E c \in Callers :
        /\ cpc[c] = "add_ret_exists"
        /\ status[carg[c]] = "stopped"

\* The place of a position of run_strategy in the order signal (1), position
\* policy (2), submit (3), persist (4), event (5); 0 outside these steps
StepRank(pc) ==
    CASE pc \in {"generate", "sig_check", "sig_publish", "mkt2"} -> 1
      [] pc \in {"order", "close_query", "closing"} -> 2
      [] pc \in {"size", "submit"} -> 3
      [] pc = "persist" -> 4
      [] pc \in {"open_check", "open_publish"} -> 5
      [] OTHER -> 0

\* C15: when the trade_opened event of a filled order is about to be handed to the
\* subscribers, the trades table holds a row with the order's ticket and status
\* opened, written in this iteration after the one order it submitted; and the
\* steps of an iteration never go back in the order signal, position policy,
\* submit, persist, event.
C15_PersistBeforeEvent ==
    /\ [](\A w \in Workers :
            wpc[w] \in {"open_check", "open_publish"} =>
                /\ ticket[w] \in Tickets
                /\ trades[ticket[w]] = OpenedRow
                /\ generated[w] /\ submitted[w] = 1 /\ opened_events[w] = 0)
    /\ [][\A w \in Workers :
            (StepRank(wpc[w]) > 0 /\ StepRank(wpc'[w]) > 0) =>
                StepRank(wpc'[w]) >= StepRank(wpc[w])]_vars

\* C15 happens: a filled order's trade_opened event is being published
C15_Witness ==
    \E w \in Workers : /\ wpc[w] = "open_publish"
                       /\ trades[ticket[w]] = OpenedRow
                       /\ ticket[w] \in positions

\* C16: an iteration in which generate_signal was called while the system is not
\* globally paused ends with exactly one signal_generated event published,
\* whatever the signal was and whatever happened to the order.
C16_OneSignalEventPerIteration ==
    [][\A w \in Workers :
         (/\ StepRank(wpc[w]) > 0
          /\ wpc'[w] \in {"loop", "exit"}
          /\ generated'[w]
          /\ ~global_paused) => signal_events'[w] = 1]_vars

\* C17: with close_before_open = false, an iteration whose position policy ran
\* while the broker held at least max_open_positions positions of the bot goes
\* on to no order submission and no trade_opened event, also when the positions
\* query failed; its signal_generated event has been published.
C17_MaxPositionsBlocksOrder ==
    \A w \in Workers :
        ~close_before_open =>
            /\ StepRank(wpc[w]) >= 3 => Cardinality(held[w]) < max_open_positions
            /\ wpc[w] = "order" => signal_events[w] = 1

\* C18: with close_before_open = true, when the worker has gone on to the new
\* entry it has attempted to close every position the broker held for the bot
\* when the position policy ran, each of them that is closed has its trades row
\* closed with close-reason signal, and the position policy always goes on to
\* the new entry.
C18_CloseBeforeOpen ==
    /\ [](\A w \in Workers :
            (close_before_open /\ StepRank(wpc[w]) >= 3) =>
                /\ held[w] \subseteq attempted[w]
                /\ \A t \in attempted[w] \ positions : trades[t] = ClosedRow("signal"))
    /\ [][\A w \in Workers :
            (close_before_open /\ StepRank(wpc[w]) = 2) => StepRank(wpc'[w]) \in {2, 3}]_vars

\* C19: the consecutive-error counter of a worker rises by one with a failed
\* reconnect or a raising iteration and is reset to 0 by a successful iteration;
\* a worker that was not told to stop leaves its loop only in the step that
\* takes its own counter from 4 to 5, and the bot is marked stopped only then;
\* the health check creates no Trade row, so four failed reconnects followed by
\* a successful one leave the worker in its loop with the trades table as it was.
C19_ErrorBudget ==
    /\ [](\A w \in Workers :
            /\ consecutive_errors[w] <= max_consecutive_errors
            /\ (wpc[w] \in {"exit", "exit_write", "dead"} /\ ~stop_event[w])
                  => consecutive_errors[w] = max_consecutive_errors
            /\ (outage[w] <= 4 /\ wpc[w] = "market") => status[BotOf(w)] # "stopped")
    /\ [][\A w \in Workers :
            LET e == consecutive_errors[w]
                f == consecutive_errors'[w] IN
            /\ f \in {e, e + 1, 0}
            /\ (wpc'[w] = "exit" /\ wpc[w] # "exit" /\ ~stop_event[w])
                  => (e = max_consecutive_errors - 1 /\ f = max_consecutive_errors)
            /\ (StepRank(wpc[w]) > 0 /\ wpc'[w] = "loop" /\ f # e + 1) => f = 0
            /\ wpc[w] = "health" => trades' = trades]_vars

\* C19 happens: four failed reconnects in a row, then a successful one
C19_Witness ==
    \E w \in Workers : /\ outage[w] = 4
                       /\ wpc[w] = "market"
                       /\ consecutive_errors[w] = 0
                       /\ status[BotOf(w)] = "running"

\* Worker w is inside BasicTrading.reconnect
Reconnecting(w) == wpc[w] \in {"rc_shutdown", "rc_init"}

\* Worker w has passed its health check and is between the broker calls of its
\* iteration: is_market_open, extract_data, the market re-check, the order
MidIteration(w) == wpc[w] \in {"market", "run_lock", "strategy", "sig_check", "sig_publish",
                               "mkt2", "order"}

\* C20: at most one worker at a time is inside the broker reconnect, and no
\* reconnect shuts the session down while another worker is between the broker
\* calls of its iteration.
C20_ReconnectSerialised ==
    /\ [](\A w, v \in Workers : (Reconnecting(w) /\ Reconnecting(v)) => w = v)
    /\ [][\A w \in Workers :
            (wpc[w] = "rc_shutdown" /\ wpc'[w] = "rc_init") =>
                \A v \in Workers \ {w} : ~MidIteration(v)]_vars

\* Rows of the table with a ticket, opened or whatever
RowsOfTicket(tbl, t) == {i \in 1..Len(tbl) : tbl[i].ticket = t}
OpenedRowsOfTicket(tbl, t) == {i \in RowsOfTicket(tbl, t) : tbl[i].status = "opened"}

\* C21: at every instant the table holds at most one row with status opened per
\* broker ticket, whatever the interleaving of the worker's log_trade_opened after a
\* filled order, the background sync cycle and a manual sync_now.
C21_OneOpenedRowPerTicket ==
    \A t \in 1..(2 * NumPositions) : Cardinality(OpenedRowsOfTicket(table, t)) <= 1

\* C22: whatever the interleaving of a worker's log_trade_closed and a sync cycle's
\* close update for one ticket, the Trade is closed once: what the first closer wrote
\* (exit price, commission, close reason, closed-at) is never overwritten, because
\* the second write finds the row no longer opened and has no effect.
C22_ClosedOnce ==
    [][\A i \in 1..Len(table) : table[i].status = "closed" => table'[i] = table[i]]_vars

\* C23: log_trade_closed(ticket, ...) returns False and changes no row whenever the
\* table held no row of that ticket with status opened when it was called, also when
\* the only row of the ticket is already closed; it returns True only after changing
\* an opened row to closed.
C23_LogClosedNeedsOpenedRow ==
    [][(lpc \in {"closed_read", "closed_write"} /\ lpc' = "idle") =>
          /\ OpenedRowsOfTicket(lbefore', lticket) = {} =>
                lret' = "False" /\ table' = table
          /\ lret' = "True" =>
                \E i \in RowsOfTicket(table, lticket) :
                    table[i].status = "opened" /\ table'[i].status = "closed"]_vars

\* C24: every row with status closed, whether closed by the trade logger, updated by
\* the sync service or synthesized by it from the broker's deals, has an exit_price
\* and a closed_at that are not null, and closed_at is not before opened_at.
C24_ClosedRowsComplete ==
    \A i \in 1..Len(table) :
        table[i].status = "closed" =>
            /\ table[i].exit_price # Null
            /\ table[i].closed_at # Null
            /\ table[i].closed_at >= table[i].opened_at

\* C25: sync_now run twice in sequence against one deal history, nobody else writing,
\* leaves the table after the second run as it was after the first: once a cycle has
\* completed, no later cycle inserts or updates a row, for every mix of positions with
\* and without an exit deal and with and without a row of their own.
C25_SyncIdempotent ==
    after_run.done >= 1 => table = after_run.table

\* C25 happens: the second cycle has completed over a history with an open and a
\* closed position, one with a logged row and one without
C25_Witness ==
    /\ after_run.done = 2
    /\ \E i, j \in 1..Len(table) :
          /\ table[i].status = "opened" /\ table[j].status = "closed"
          /\ table[i].bot_id[1] # table[j].bot_id[1]
    /\ \E i, j \in 1..Len(deals) :
          i < j /\ deals[i].position_id # 0 /\ deals[i].position_id = deals[j].position_id

\* The close reason rule read to the letter: the comment itself contains the mark
LiteralReason(comment) ==
    IF Contains(<<"[", "t", "p">>, comment) THEN "tp"
    ELSE IF Contains(<<"[", "s", "l">>, comment) THEN "sl"
    ELSE "synced"

\* The rule with the marks in letters of either case
EitherCaseReason(comment) ==
    IF \E mark \in {<<"[", "t", "p">>, <<"[", "T", "P">>, <<"[", "t", "P">>,
                    <<"[", "T", "p">>} : Contains(mark, comment)
    THEN "tp"
    ELSE IF \E mark \in {<<"[", "s", "l">>, <<"[", "S", "L">>, <<"[", "s", "L">>,
                         <<"[", "S", "l">>} : Contains(mark, comment)
    THEN "sl"
    ELSE "synced"

\* The deals of a ticket's position group in the history, sorted
GroupOfTicket(t) ==
    LET keys == GroupKeys(deals)
        own == {k \in 1..Len(keys) : SortByTime(GroupDeals(deals, keys[k]))[1].order = t}
    IN IF own = {} THEN <<>>
       ELSE SortByTime(GroupDeals(deals, keys[CHOOSE k \in own : TRUE]))

\* A step of the sync changes an existing row only from opened, for a group with an
\* exit deal, to closed with the reason Reason gives, and leaves the identity of the
\* row alone
SyncChangesOnlyOpened(Reason(_)) ==
    \A i \in 1..Len(table) :
        table'[i] # table[i] =>
            LET group == GroupOfTicket(table[i].ticket) IN
            /\ table[i].status = "opened"
            /\ Len(group) > 1
            /\ table'[i].status = "closed"
            /\ table'[i].close_reason = Reason(group[Len(group)].comment)
            /\ table'[i].ticket = table[i].ticket
            /\ table'[i].magic_number = table[i].magic_number
            /\ table'[i].bot_id = table[i].bot_id
            /\ table'[i].symbol = table[i].symbol
            /\ table'[i].action = table[i].action
            /\ table'[i].volume = table[i].volume
            /\ table'[i].entry_price = table[i].entry_price
            /\ table'[i].opened_at = table[i].opened_at

\* At the end of a cycle every Trade that was opened and whose group has an exit deal
\* has been closed
SyncClosedWhatItCould ==
    ypc["manual"] = "done" =>
        \A k \in 1..Len(GroupKeys(deals)) :
            LET group == SortByTime(GroupDeals(deals, GroupKeys(deals)[k]))
                trade == get_trade_by_ticket(table, group[1].order)
            IN (trade # NoTrade /\ Len(group) > 1) => trade.status = "closed"

\* C26 as stated: for a position group whose ticket already has a Trade, a sync cycle
\* changes that Trade only if it is opened and the group has an exit deal; it then
\* sets status closed with close reason tp if the exit deal's comment contains '[tp',
\* otherwise sl if it contains '[sl', otherwise synced, and leaves ticket, magic
\* number, bot id, symbol, action, volume, entry price and opened-at unchanged; in
\* every other case the Trade is left unchanged.
C26_SyncUpdateAsStated ==
    []SyncClosedWhatItCould /\ [][SyncChangesOnlyOpened(LiteralReason)]_vars

\* C26 amended: the same, with the marks '[tp' and '[sl' looked for in the comment
\* whatever the case of its letters.
C26_SyncUpdate ==
    []SyncClosedWhatItCould /\ [][SyncChangesOnlyOpened(EitherCaseReason)]_vars

\* C26 happens: a row the worker logged has been closed by a sync cycle from an exit
\* deal whose comment carries the take-profit mark in capitals
C26_Witness ==
    /\ after_run.done >= 1
    /\ \E i \in 1..Len(table) :
          /\ table[i].bot_id[1] = "Bot"
          /\ table[i].status = "closed"
          /\ table[i].close_reason = "tp"
          /\ Len(GroupOfTicket(table[i].ticket)) > 1
          /\ GroupOfTicket(table[i].ticket)[2].comment = <<"[", "T", "P">>

\* The deals of the history that share the position of the deal whose order is t
DealsSharingPosition(t) ==
    {d \in {deals[i] : i \in 1..Len(deals)} :
        \E e \in {deals[i] : i \in 1..Len(deals)} :
            e.order = t /\ e.position_id # 0 /\ d.position_id = e.position_id}

C28_SignalRowPerDecision ==
    [][/\ \A w \in Workers :
            (/\ StepRank(wpc[w]) > 0
             /\ wpc'[w] \in {"loop", "exit"}
             /\ generated'[w]) => Len(signals') >= 1
       /\ \A i \in 1..Len(signals) : i <= Len(signals') /\ signals'[i] = signals[i]]_vars

\* The callbacks invoked so far for a publisher's event, without their outcomes
InvokedCallbacks(p) == [i \in 1..Len(invoked[p]) |-> invoked[p][i][1]]

\* C29: publish(e) invokes exactly the callbacks registered for e's type at the
\* moment the event is recorded, once per registration and in registration order,
\* without the publisher holding the bus lock; a callback that raises neither stops
\* the later ones nor ends the publish; a subscribe or unsubscribe made during the
\* delivery does not change the callbacks of the publication in progress.
C29_PublishDelivers ==
    /\ [](\A p \in Publishers :
            bpc[p] = "deliver" =>
                /\ bus_lock # p
                /\ InvokedCallbacks(p) \o callbacks[p] = at_publish[p])
    /\ [][\A p \in Publishers :
            /\ (bpc[p] = "locked" /\ bpc'[p] = "deliver") =>
                  at_publish'[p] = subscribers[bevent[p].type]
            /\ (bpc[p] = "deliver" /\ bpc'[p] = "idle") =>
                  InvokedCallbacks(p) = at_publish[p]
            /\ (bpc[p] = "deliver" /\ bpc'[p] = "deliver") =>
                  at_publish'[p] = at_publish[p]]_vars

\* C29 happens: a publish is about to return after two callbacks, the first of
\* which raised, while the registrations of the type changed during the delivery
C29_Witness ==
    \E p \in Publishers :
        /\ bpc[p] = "deliver"
        /\ callbacks[p] = <<>>
        /\ Len(invoked[p]) = 2
        /\ invoked[p][1][2]
        /\ subscribers[bevent[p].type] # at_publish[p]

\* min
Min(a, b) == IF a <= b THEN a ELSE b

\* The last n elements of a sequence, n at most its length
LastN(list, n) == SubSeq(list, Len(list) - n + 1, Len(list))

\* C30: the event history never holds more than max_history events and always holds
\* the most recently published ones in publication order; get_recent_events(type,
\* limit) returns the last min(limit, n) events of the type from that history, n
\* being the number of retained events of the type, so never more than limit
\* events, for every limit >= 0.
C30_HistoryAndRecent ==
    /\ [](/\ Len(event_history) <= max_history
          /\ event_history = LastN(published, Min(Len(published), max_history)))
    /\ [][(recent' # recent \/ recent_args' # recent_args) =>
            LET of_type == EventsOfType(event_history, recent_args'[1])
            IN /\ recent' = LastN(of_type, Min(recent_args'[2], Len(of_type)))
               /\ Len(recent') <= recent_args'[2]]_vars

\* The positions of _run_bot from which a status write and its snapshot follow
WorkerTransitionSites == {"created", "start", "wm_lock", "run_lock", "exit"}
                             \cup WorkerWriteSites

\* No controller operation and no worker status transition is in progress
SnapshotQuiescent ==
    /\ \A c \in Callers : cpc[c] = "idle" /\ csnap[c] = NoSnapshot
    /\ \A w \in Workers : wpc[w] \notin WorkerTransitionSites /\ wsnap[w] = NoSnapshot

\* C31: whenever no controller operation and no worker status transition is in
\* progress, the state-snapshot file holds the current registry (each bot's
\* status) and the current global-pause flag, whatever the interleaving of the
\* snapshot writers, also after restart_bot and stop_all_bots.
C31_SnapshotIsCurrent ==
    SnapshotQuiescent => state_file = <<status, global_paused>>

\* The registry status of bot b is paused exactly when its pause signal is cleared
PausedIffCleared(b) == (status[b] = "paused") <=> ~pause_event[Current(b)]

\* C33: for every registered bot whose worker thread is alive and not
\* stop-signaled, the registry status is paused exactly when the bot's pause
\* signal is cleared, under every interleaving of pause_bot / resume_bot with the
\* worker's own status writes; hence resume_bot never returns false for a bot
\* whose worker is blocked at the pause gate.
C33_PausedIffGateClosed ==
    /\ \A b \in Bots :
          Registered(b) /\ Alive(Current(b)) /\ ~stop_event[Current(b)]
          => PausedIffCleared(b)
    /\ \A c \in Callers :
          cpc[c] = "resume_ret_notpaused" /\ ~stop_event[Current(carg[c])]
          => wpc[Current(carg[c])] # "gate_wait"

\* Worker w sends its order to the broker in this step and the order is filled
OrderSent(w) == wpc[w] = "order" /\ wpc'[w] = "open_check"

\* C34: a worker submits orders (and closes positions) only while its bot's
\* registry status is running: once pause_bot or stop_bot has returned for a bot
\* (no controller operation is in progress), its worker sends nothing to the
\* broker until the bot is resumed or restarted, also when the call arrived in
\* the middle of an iteration or stop_bot's join timed out.
C34_OrdersOnlyWhileRunning ==
    [][\A w \in Workers :
          OrderSent(w) /\ (\A c \in Callers : cpc[c] = "idle")
          => status[BotOf(w)] = "running"]_vars

\* The positions of _run_bot before and after its `while` loop
OutsideLoop == {"unborn", "created", "start", "start_write", "exit", "exit_write", "dead"}

\* The worker threads of bot b that are inside the loop of _run_bot
LiveWorkers(b) == {g \in Gens : wpc[<<b, g>>] \notin OutsideLoop}

\* C35: at any time at most one thread is executing the worker loop for a given
\* bot-id, also across restart_bot when the previous worker has not terminated
\* within stop_bot's join timeout.
C35_OneWorkerPerBot ==
    \A b \in Bots : Cardinality(LiveWorkers(b)) <= 1

\* The positions of pause_bot / resume_bot at which on_bot_status_change publishes
\* bot_paused / bot_resumed and the subscribers' callbacks run
StatusEmitSites == {"pause_emit", "resume_emit"}

\* C36: the callbacks subscribed to bot_paused, bot_resumed and bot_stopped are
\* invoked while the publishing thread does not hold the controller's registry
\* mutex, so that a callback calling get_bot_status, list_bots or pause_bot does
\* not wait for a mutex its own thread holds.
C36_StatusEventsOutsideMutex ==
    \A c \in Callers : cpc[c] \in StatusEmitSites => lock # HeldByCaller(c)

\* C39: the global-pause flag is true only if at least one registered bot has
\* status paused; in particular stopping every registered bot with stop_bot
\* while none of them is paused leaves the flag false.
C39_FlagNeedsPausedBot ==
    global_paused => \E b \in Bots : status[b] = "paused"

\* The resolution went through the stages in the stated order: a listed envelope
\* candidate, else the first listed common variant, else the first listed name
\* equal to the symbol up to case, else the first listed name of at most 10
\* characters that contains it, else none
ResolvedInStatedOrder ==
    LET listed == Range(all_symbols)
        custom == Range(custom_candidates(requested)) \cap listed
        common == common_variations(requested)
        Listed(name) == name \in listed
        Exact(name) == upper(name) = upper(requested)
        Partial(name) == Contains(upper(requested), upper(name)) /\ Len(name) <= 10
    IN IF custom # {} THEN resolved \in custom
       ELSE IF \E i \in DOMAIN common : Listed(common[i])
       THEN resolved = FirstThat(common, Listed)
       ELSE IF \E name \in listed : Exact(name)
       THEN resolved = FirstThat(all_symbols, Exact)
       ELSE IF \E name \in listed : Partial(name)
       THEN resolved = FirstThat(all_symbols, Partial)
       ELSE resolved = NoName

\* With suffix '.ecn' configured and 'EURUSD.ecn' listed, 'EURUSD' resolves to
\* 'EURUSD.ecn' whatever else is listed
EnvelopeWins ==
    (/\ symbol_suffix = <<".", "e", "c", "n">>
     /\ requested = EURUSD
     /\ EURUSD \o symbol_suffix \in Range(all_symbols))
    => resolved = EURUSD \o symbol_suffix

\* C32: symbol resolution tries the candidates in the stated order (envelope
\* candidates, common variants, case-insensitive exact scan, substring scan over
\* names of at most 10 characters) and returns the first the broker knows, none
\* when nothing matches; with suffix '.ecn' configured and 'EURUSD.ecn' listed,
\* 'EURUSD' resolves to 'EURUSD.ecn' even if another variant is listed too.
C32_SymbolResolution ==
    requested # NoName => ResolvedInStatedOrder /\ EnvelopeWins

\* C38: when the broker's name for the traded symbol differs from the name the
\* bot is configured with, the position-policy query of an iteration still counts
\* and closes the positions the bot opened on that symbol: the count it took is
\* the number of positions held, with close_before_open = false the iteration
\* goes on to an order only below max_open_positions, and with close_before_open
\* = true it has attempted to close every position held.
C38_PolicySeesEnvelopePositions ==
    \A w \in Workers :
        (actual_symbol # EURUSD /\ StepRank(wpc[w]) >= 3) =>
            /\ current_positions[w] = Cardinality(held[w])
            /\ ~close_before_open => Cardinality(held[w]) < max_open_positions
            /\ close_before_open => held[w] \subseteq attempted[w]

\* C37: for a strategy with close_before_open = false the number of broker
\* positions open for one (symbol, magic) never exceeds max_open_positions, also
\* when two bots of the same strategy class trade the symbol on different
\* timeframes and run their iterations concurrently.
C37_SharedPositionLimit ==
    ~close_before_open => Cardinality(positions) <= max_open_positions

\* C40: the dictionary get_bot_stats returned for a bot has closed_trades equal to the
\* number of that bot's rows with status closed and open_trades equal to the number
\* with status opened (a closed trade with profit 0 counts as closed), with
\* wins + losses <= closed_trades and open_trades + closed_trades <= total_trades
RowsWithStatus(rows, b, st) ==
    Cardinality({i \in 1..Len(rows) : rows[i].bot_id = b /\ rows[i].status = st})

C40_StatsCountByStatus ==
    stats # NoStats =>
        /\ stats.closed_trades = RowsWithStatus(stats_rows, stats.bot_id, "closed")
        /\ stats.open_trades = RowsWithStatus(stats_rows, stats.bot_id, "opened")
        /\ stats.wins + stats.losses <= stats.closed_trades
        /\ stats.open_trades + stats.closed_trades <= stats.total_trades

====
